---- MODULE Spec2Model ----
(***************************************************************************)
(* A model of tambour's coordination layer.                                *)
(*                                                                         *)
(* Part 1: the merge lock (src/src/tambour/lock.py) and the finish         *)
(* workflow that uses it (src/src/tambour/finish.py).                      *)
(*                                                                         *)
(* The remote is one git reference, refs/tambour/merge-lock.  Every git    *)
(* command the code runs is one step; its outcome is an input of the step: *)
(* a command that talks to the remote either reaches it (and then the      *)
(* remote's state decides the return code) or fails in transport, and a    *)
(* command that reads local objects either succeeds or fails.              *)
(***************************************************************************)
EXTENDS Integers, Sequences, FiniteSets, TLC

(* ------------------------------ bounds -------------------------------- *)

\* MergeLock.timeout, seconds (constructor argument / TAMBOUR_LOCK_TIMEOUT).
LockTimeout == 11

\* Clock readings datetime.now() may return are numbered 0..MaxTick.
MaxTick == 1

\* HealthChecker.zombie_threshold, seconds (config daemon.zombie_threshold).
ZombieThreshold == 2

\* Liveness records are 0..MaxAge seconds old when the health check runs.
MaxAge == 3

\* A configuration holds at most MaxPlugins plugins.
MaxPlugins == 2

\* The tracker has at most MaxTasks work units in progress.
MaxTasks == 2

\* config.daemon.health_interval, seconds between two health-check passes.
HealthInterval == 2

\* HeartbeatWriter.interval is one of 1..MaxInterval seconds.
MaxInterval == 6

\* The clock of a workspace reads 0..MaxClock seconds.
MaxClock == 7

\* The scheduler runs at most MaxPasses health-check passes.
MaxPasses == 3

(* ------------------------- program constants -------------------------- *)

\* time.sleep(5), the retry delay of the heartbeat writer.
RETRY_DELAY == 5

\* self._heartbeat_proc.wait(timeout=5)
STOP_WAIT == 5

POLL_INTERVAL == 5

LOCK_FILE == "lock.json"

\* The processes that use the lock concurrently.
Procs == {1, 2}

\* Holder names: FinishCommand passes its issue id.
Holders == {"bobbin-a", "bobbin-b"}

\* The invocations of `tambour daemon start` on one PID file; instance d's
\* daemon process has the PID d.
Daemons == {1, 2}

\* The value of an Optional that is None is <<>>, a present value v is <<v>>.
None == <<>>
Some(v) == <<v>>

(* --------------------------- LockMetadata ----------------------------- *)

\* An aware datetime: whole seconds, microseconds, UTC offset (None: naive).
DateTime(t) == [sec |-> t \div 2, usec |-> t % 2, tz |-> Some(0)]

\* datetime.now(timezone.utc), for each reading of the clock.
Times == {DateTime(t) : t \in 0..MaxTick}

\* socket.gethostname() and os.getpid() of process p.
HostOf(p) == "agent-host"
PidOf(p) == p

LockMetadata(h, at, host, pid) ==
    [holder |-> h, acquired_at |-> at, host |-> host, pid |-> pid]

\* datetime.isoformat(): "YYYY-MM-DDTHH:MM:SS[.ffffff][+HH:MM]"; the fraction
\* is written only when microsecond is not 0, the offset only when aware.
IsoFormat(dt) ==
    [valid |-> TRUE, sec |-> dt.sec,
     frac |-> IF dt.usec = 0 THEN None ELSE Some(dt.usec),
     tz |-> dt.tz]

\* datetime.fromisoformat() of a well-formed string.
FromIsoFormat(s) ==
    [sec |-> s.sec, usec |-> IF s.frac = None THEN 0 ELSE s.frac[1], tz |-> s.tz]

\* LockMetadata.to_dict
ToDict(m) ==
    [holder |-> m.holder, acquired_at |-> IsoFormat(m.acquired_at),
     host |-> m.host, pid |-> m.pid]

\* Outcome of a call that may raise: exc is "none" or the exception's class.
Returned(v) == [exc |-> "none", val |-> Some(v)]
Raised(e) == [exc |-> e, val |-> None]

\* LockMetadata.from_dict(data), data the value json.loads returned: the
\* keyword arguments are evaluated in order, so the first failing lookup or
\* conversion decides the exception.
FromDict(data) ==
    IF data.type # "object" THEN Raised("TypeError")
    ELSE IF "holder" \notin DOMAIN data.val THEN Raised("KeyError")
    ELSE IF "acquired_at" \notin DOMAIN data.val THEN Raised("KeyError")
    ELSE IF ~data.val.acquired_at.valid THEN Raised("ValueError")
    ELSE IF "host" \notin DOMAIN data.val THEN Raised("KeyError")
    ELSE IF "pid" \notin DOMAIN data.val THEN Raised("KeyError")
    ELSE Returned(LockMetadata(data.val.holder,
                               FromIsoFormat(data.val.acquired_at),
                               data.val.host, data.val.pid))

\* json.dumps of a dict: the text of a JSON object.
JsonDumps(d) == [text |-> "object", obj |-> d]

\* json.loads: text that is not JSON raises JSONDecodeError; any other text
\* gives the value it denotes (a dict for an object, a list for an array...).
JsonLoads(t) ==
    IF t.text = "invalid" THEN Raised("JSONDecodeError")
    ELSE Returned([type |-> t.text, val |-> t.obj])

(* ----------------------------- the remote ----------------------------- *)

\* The lock reference on the remote: absent, or a commit whose tree lists
\* named blobs.
NoRef == [present |-> FALSE, tree |-> <<>>]

\* The commit acquire builds: blob (hash-object) in a one-entry tree (mktree)
\* in a parentless commit (commit-tree).
LockCommit(lock_data) ==
    [present |-> TRUE, tree |-> <<[name |-> LOCK_FILE, blob |-> lock_data]>>]

\* What something other than acquire may have pushed to the reference: the
\* metadata of a foreign holder with a naive timestamp, text that is not
\* JSON, an object without "pid", an object whose acquired_at is no ISO
\* timestamp, and a JSON array.
ForeignStamp == [valid |-> TRUE, sec |-> 0, frac |-> None, tz |-> None]
BadStamp == [valid |-> FALSE, sec |-> 0, frac |-> None, tz |-> None]
ForeignBlobs ==
    { JsonDumps([holder |-> "bobbin-b", acquired_at |-> ForeignStamp,
                 host |-> "other-host", pid |-> 0]),
      [text |-> "invalid", obj |-> [raw |-> "{"]],
      JsonDumps([holder |-> "bobbin-b", acquired_at |-> ForeignStamp,
                 host |-> "other-host"]),
      JsonDumps([holder |-> "bobbin-b", acquired_at |-> BadStamp,
                 host |-> "other-host", pid |-> 0]),
      [text |-> "array", obj |-> [items |-> "bobbin-b"]] }

\* Foreign commits: lock.json alone, lock.json after another file, and a tree
\* without lock.json.
ForeignRefs ==
    {LockCommit(b) : b \in ForeignBlobs}
    \cup {[present |-> TRUE,
           tree |-> <<[name |-> "README", blob |-> b], [name |-> LOCK_FILE, blob |-> b]>>] :
          b \in ForeignBlobs}
    \cup {[present |-> TRUE, tree |-> <<[name |-> "README", blob |-> b]>>] :
          b \in ForeignBlobs}

\* A mutant of PushCreate: a forced push, which replaces an existing reference.
PushCreateForced(r, commit, reach) ==
    IF reach THEN [rc |-> 0, ref |-> commit] ELSE [rc |-> 128, ref |-> r]

\* git push origin <commit>:refs/tambour/merge-lock.  The commit has no
\* parent, so an existing reference is never fast-forwarded to it: the push
\* creates the reference or is rejected.  reach: the push reached the remote.
PushCreate(r, commit, reach) ==
    IF reach /\ ~r.present THEN [rc |-> 0, ref |-> commit]
    ELSE IF reach THEN [rc |-> 1, ref |-> r]
    ELSE [rc |-> 128, ref |-> r]

\* git push origin --delete refs/tambour/merge-lock: gone is "the stderr says
\* the remote ref does not exist".
PushDelete(r, reach) ==
    IF reach /\ r.present THEN [rc |-> 0, gone |-> FALSE, ref |-> NoRef]
    ELSE IF reach THEN [rc |-> 1, gone |-> TRUE, ref |-> r]
    ELSE [rc |-> 128, gone |-> FALSE, ref |-> r]

\* git fetch origin refs/tambour/merge-lock: return code 0 exactly when the
\* fetch reached the remote and the reference is there.
Fetch(r, reach) == [rc |-> IF reach /\ r.present THEN 0 ELSE 128]

\* result.returncode != 0 is the test status() makes.
FetchOk(r, reach) == Fetch(r, reach).rc = 0

(* ------------------------- MergeLock.status --------------------------- *)

Free == Returned([held |-> FALSE, metadata |-> None])
HeldUnknown == Returned([held |-> TRUE, metadata |-> None])
Held(m) == Returned([held |-> TRUE, metadata |-> Some(m)])

\* LockStatus.holder
HolderOf(status) ==
    IF status.metadata = None THEN None ELSE Some(status.metadata[1].holder)

\* The outcomes of the local reads of status(): which of them fails, if any.
Reads == {"ok", "cat-file", "ls-tree", "blob"}

\* What except (json.JSONDecodeError, KeyError) makes of a raised exception.
StatusExcept(e) ==
    IF e \in {"JSONDecodeError", "KeyError"} THEN HeldUnknown ELSE Raised(e)

\* json.loads then LockMetadata.from_dict, inside the try block.
ParseBlob(blob) ==
    LET data == JsonLoads(blob)
    IN  IF data.exc # "none" THEN StatusExcept(data.exc)
        ELSE LET m == FromDict(data.val[1])
             IN  IF m.exc # "none" THEN StatusExcept(m.exc)
                 ELSE Held(m.val[1])

\* The loop over the lines of ls-tree, from line i on.
RECURSIVE ScanTree(_, _, _)
ScanTree(tree, i, read) ==
    IF i > Len(tree) THEN HeldUnknown
    ELSE IF tree[i].name = LOCK_FILE /\ read # "blob" THEN ParseBlob(tree[i].blob)
    ELSE ScanTree(tree, i + 1, read)

\* MergeLock.status(), on remote reference r.
StatusOf(r, reach, read) ==
    IF ~FetchOk(r, reach) THEN Free
    ELSE IF read = "cat-file" THEN HeldUnknown
    ELSE IF read = "ls-tree" THEN HeldUnknown
    ELSE ScanTree(r.tree, 1, read)

(* -------------------- HealthChecker (pure functions) ------------------ *)

\* The clock of the workspace, in seconds.
VARIABLE clock

\* datetime.now(timezone.utc) when the health check runs, in seconds.
Now == clock

\* The timestamp strings a liveness record may hold: what the heartbeat
\* writer writes (UTC, "Z" suffix), the same with "+00:00", a timestamp
\* without timezone, and text that is no ISO timestamp.  z: the "Z" suffix.
Stamp(t, tz, z) == [valid |-> TRUE, sec |-> t, frac |-> None, tz |-> tz, z |-> z]
NoStamp == [valid |-> FALSE, sec |-> 0, frac |-> None, tz |-> None, z |-> FALSE]
WriterStamps == {Stamp(t, None, TRUE) : t \in 0..MaxAge}
Stamps ==
    WriterStamps \cup {Stamp(0, Some(0), FALSE), Stamp(0, None, FALSE), NoStamp}

\* timestamp_str.replace("Z", "+00:00")
ReplaceZ(s) == IF s.z THEN [s EXCEPT !.tz = Some(0), !.z = FALSE] ELSE s

\* The heartbeat file: absent, present but unreadable (read_text raises
\* OSError), or present with a text: empty or truncated (not JSON), a JSON
\* array, an object without "timestamp", an object with a timestamp.
NoFile == [exists |-> FALSE, readable |-> FALSE,
           json |-> [text |-> "invalid", obj |-> [raw |-> ""]]]
HeartbeatFile(readable, json) == [exists |-> TRUE, readable |-> readable, json |-> json]
HeartbeatTexts ==
    {[text |-> "invalid", obj |-> [raw |-> ""]],
     [text |-> "invalid", obj |-> [raw |-> "{\"timestamp\": \"20"]],
     [text |-> "array", obj |-> [items |-> "x"]],
     JsonDumps([pid |-> 1])}
    \cup {JsonDumps([timestamp |-> s, pid |-> 1]) : s \in Stamps}
HeartbeatFiles ==
    {NoFile} \cup {HeartbeatFile(TRUE, j) : j \in HeartbeatTexts}
    \cup {HeartbeatFile(FALSE, JsonDumps([pid |-> 1]))}

\* The processes: bound, some live process has the workspace as its working
\* directory; lsof, whether the lsof pipeline ends within its 2 s timeout.
ProcessStates == [bound : BOOLEAN, lsof : {"ok", "timeout"}]

\* _is_process_running_in_worktree: lsof | grep ' cwd ' returned 0; a
\* TimeoutExpired gives False.
IsProcessRunningInWorktree(proc) ==
    IF proc.lsof = "timeout" THEN FALSE ELSE proc.bound

\* age = (datetime.now(timezone.utc) - last_activity).total_seconds(); the
\* subtraction raises TypeError when last_activity has no timezone.
Age(last) == Now - last.sec

\* A mutant of Fresh: a record exactly as old as the threshold still counts.
FreshAtThreshold(age) == age <= ZombieThreshold

\* is_alive = age < self.zombie_threshold
Fresh(age) == age < ZombieThreshold

\* The fallback after the heartbeat file: the process check, no last activity.
Fallback(proc) ==
    Returned([is_alive |-> IsProcessRunningInWorktree(proc), last_activity |-> None])

\* What except (json.JSONDecodeError, ValueError, OSError): pass makes of an
\* exception raised inside the try block.
HeartbeatExcept(e, proc) ==
    IF e \in {"JSONDecodeError", "ValueError", "OSError"} THEN Fallback(proc)
    ELSE Raised(e)

\* The body of the try block, for the value json.loads returned.
ReadTimestamp(data, proc) ==
    IF data.type # "object" THEN HeartbeatExcept("AttributeError", proc)
    ELSE IF "timestamp" \notin DOMAIN data.val THEN Fallback(proc)
    ELSE LET s == ReplaceZ(data.val.timestamp)
         IN  IF ~s.valid THEN HeartbeatExcept("ValueError", proc)
             ELSE LET last == FromIsoFormat(s)
                  IN  IF last.tz = None THEN HeartbeatExcept("TypeError", proc)
                      ELSE Returned([is_alive |-> Fresh(Age(last)),
                                     last_activity |-> Some(last)])

\* HealthChecker._check_heartbeat
CheckHeartbeat(file, proc) ==
    IF ~file.exists THEN Fallback(proc)
    ELSE IF ~file.readable THEN HeartbeatExcept("OSError", proc)
    ELSE LET data == JsonLoads(file.json)
         IN  IF data.exc # "none" THEN HeartbeatExcept(data.exc, proc)
             ELSE ReadTimestamp(data.val[1], proc)

\* The tracked statuses of a work unit.
Statuses == {"open", "in_progress", "closed"}

\* A work unit as the health check finds it.
Tasks == [status : Statuses, worktree : BOOLEAN, file : HeartbeatFiles, proc : ProcessStates]

\* A mutant of IsZombie: the tracked status is not looked at.
IsZombieAnyStatus(status, worktree_exists, is_alive) ==
    ~worktree_exists \/ ~is_alive

\* is_zombie = status == "in_progress" and (not worktree_exists or not is_alive)
IsZombie(status, worktree_exists, is_alive) ==
    status = "in_progress" /\ (~worktree_exists \/ ~is_alive)

\* The call of _check_heartbeat in _check_task: None when the workspace does
\* not exist.
HeartbeatOf(t) == IF t.worktree THEN Some(CheckHeartbeat(t.file, t.proc)) ELSE None

\* HealthChecker._check_task
CheckTask(t) ==
    LET h == HeartbeatOf(t)
        is_alive == IF h = None THEN FALSE ELSE h[1].val[1].is_alive
        last_activity == IF h = None THEN None ELSE h[1].val[1].last_activity
    IN  IF h # None /\ h[1].exc # "none" THEN Raised(h[1].exc)
        ELSE Returned([status |-> t.status,
                       worktree_exists |-> t.worktree,
                       is_zombie |-> IsZombie(t.status, t.worktree, is_alive),
                       last_activity |-> last_activity])

(* -------------------- EventDispatcher (pure functions) ---------------- *)

\* The event types of the EventType enumeration the program's dispatchers
\* are handed here, and one nothing below dispatches.
EventTypes == {"health.zombie", "agent.spawned"}
OtherEvent == "tool.used"

\* What running a subscription's command does: it exits with 0, exits with
\* another code, outlives the subscription's timeout, or cannot be spawned.
Runs == {"exit0", "exit1", "timeout", "error"}

\* PluginConfig without its name: the subscriptions of both event types
\* (enabled, in either mode, with every command), a disabled one, one of
\* another event and one of a single event type.
PluginKinds ==
    [on : {EventTypes}, run : Runs, blocking : BOOLEAN, enabled : {TRUE}]
    \cup {[on |-> EventTypes, run |-> "exit0", blocking |-> TRUE, enabled |-> FALSE],
          [on |-> {OtherEvent}, run |-> "exit0", blocking |-> TRUE, enabled |-> TRUE],
          [on |-> {"health.zombie"}, run |-> "exit0", blocking |-> TRUE, enabled |-> TRUE]}

\* Config.plugins, in the order of the configuration file; a plugin's name is
\* its key, here its position.
ConfigOf(kinds) ==
    [i \in 1..Len(kinds) |->
        [name |-> i, on |-> kinds[i].on, run |-> kinds[i].run,
         blocking |-> kinds[i].blocking, enabled |-> kinds[i].enabled]]
Configs ==
    {ConfigOf(kinds) : kinds \in UNION {[1..n -> PluginKinds] : n \in 0..MaxPlugins}}

\* PluginConfig.matches_event
MatchesAny(plugin, event_type) == TRUE
MatchesEvent(plugin, event_type) == event_type \in plugin.on

\* Config.get_plugins_for_event
GetPluginsForEvent(config, event_type) ==
    LET Wanted(plugin) == MatchesEvent(plugin, event_type) /\ plugin.enabled
    IN  SelectSeq(config, Wanted)

\* PluginResult (duration_ms left out)
PluginResult(name, success, exit_code, error, output) ==
    [plugin_name |-> name, success |-> success, exit_code |-> exit_code,
     error |-> error, output |-> output]

\* success=result.returncode == 0
SuccessAlways(returncode) == TRUE
Success(returncode) == returncode = 0

\* EventDispatcher._execute_plugin: never raises.
ExecutePluginExit0(plugin) ==
    PluginResult(plugin.name, TRUE, Some(0), None, Some("stdout"))
ExecutePlugin(plugin) ==
    CASE plugin.run = "exit0" ->
            PluginResult(plugin.name, Success(0), Some(0), None, Some("stdout"))
      [] plugin.run = "exit1" ->
            PluginResult(plugin.name, Success(1), Some(1), Some("stderr"), Some("stdout"))
      [] plugin.run = "timeout" ->
            PluginResult(plugin.name, FALSE, None, Some("Plugin timed out"), None)
      [] plugin.run = "error" ->
            PluginResult(plugin.name, FALSE, None, Some("str(e)"), None)

\* The result dispatch appends for a non-blocking subscription.
AsyncStartedReal(plugin) == ExecutePlugin(plugin)
AsyncStarted(plugin) ==
    PluginResult(plugin.name, TRUE, None, None, Some("(Async execution started)"))

\* The dispatchers the program builds: cmd_events_emit passes a log file,
\* HealthChecker._handle_zombie and AgentSpawner.__init__ pass none.
EVENTS_LOG == "events.log"
Dispatchers ==
    {[by |-> "cmd_events_emit", log_file |-> Some(EVENTS_LOG)],
     [by |-> "_handle_zombie", log_file |-> None],
     [by |-> "AgentSpawner", log_file |-> None]}

\* The event types a dispatcher is handed.
EventsOf(d) ==
    CASE d.by = "cmd_events_emit" -> EventTypes
      [] d.by = "_handle_zombie" -> {"health.zombie"}
      [] d.by = "AgentSpawner" -> {"agent.spawned"}

\* The lines _log_result writes for a result.
LogLine(result) ==
    [status |-> IF result.success THEN "SUCCESS" ELSE "FAILED",
     plugin_name |-> result.plugin_name,
     exit_code |-> result.exit_code,
     error |-> result.error]

\* EventDispatcher._log_result on the log's contents: nothing without a log
\* file; with one, the append either succeeds or fails (appended = FALSE) and
\* the failure is only printed.
LogResult(lines, log_file, result, appended) ==
    IF log_file = None THEN lines
    ELSE IF appended THEN Append(lines, LogLine(result))
    ELSE lines

\* if not result.success: break
StopsNever(result) == FALSE
Stops(result) == ~result.success

(* ------------------------------- state -------------------------------- *)

VARIABLES
    ref,       \* the lock reference on the remote
    pc,         \* pc[p]: where process p is
    op,         \* op[p]: the MergeLock method p called last
    arg,        \* arg[p]: the holder argument of that call (None: not given)
    acq,        \* acq[p]: MergeLock._acquired of p's instance
    hld,        \* hld[p]: MergeLock._holder of p's instance
    elapsed,    \* elapsed[p]: time.time() minus the start of p's acquire
    tries,      \* tries[p]: the turns of the while loop p's acquire has begun
    meta,       \* meta[p]: the LockMetadata p's acquire built
    ret,        \* ret[p]: what the last call returned
    rc,         \* rc[p]: the return code of that call's fetch or delete push
    st,         \* st[p]: the LockStatus the last top-level status() gave p
    fin,        \* fin[p]: p's FinishCommand.run in progress
    fres,       \* fres[p]: the outcome of p's last FinishCommand.run
    did,        \* did[p]: the commands p's FinishCommand.run has run so far
    queue,      \* history: the processes inside acquire, in the order they called it
    overtaken,  \* history: overtaken[p]: during p's acquire a later caller's returned True
    owners,     \* history: whose acquire returned True since the last delete
    written     \* history: the LockMetadata object behind the reference

VARIABLES
    task,       \* health check: the work unit, its workspace, record and processes
    hb,         \* health check: what _check_heartbeat returned, None when not called
    health      \* health check: the outcome of _check_task, None before the check

VARIABLES
    dispatcher, \* events: the EventDispatcher built (who built it, its log_file)
    config,     \* events: Config.plugins
    event,      \* events: the type of the Event dispatch was handed, None before
    dpc,        \* events: where dispatch is: idle, loop, exec, returned
    plugins,    \* events: dispatch's plugins, the subscriptions of its event
    idx,        \* events: the position of dispatch's for loop in plugins
    results,    \* events: dispatch's results list
    thread,     \* events: thread[n]: the thread _dispatch_async made for plugin n
    log,        \* events: the lines of the dispatcher's log file
    host,       \* events: the process that called dispatch
    started,    \* history: the names of the commands started, in order
    finished    \* history: the names of the commands that have ended, in order

VARIABLES
    hw_pc,          \* heartbeat: where HeartbeatWriter.start is
    hw_running,     \* heartbeat: HeartbeatWriter._running
    heartbeat_file, \* heartbeat: the liveness record of the writer's workspace
    hw_signalled,   \* history: _stop has run
    hw_unlinked,    \* history: start has deleted the record
    hw_after        \* history: the calls of _write_heartbeat since _stop ran

VARIABLES
    auto_recover,   \* check_all: HealthChecker.auto_recover
    tasks,          \* check_all: what _get_in_progress_tasks returned
    tracker,        \* check_all: tracker[i]: status and assignee of unit i in the tracker
    ca_pc,          \* check_all: where check_all is
    ca_i,           \* check_all: the position of its for loop in tasks
    ca_results,     \* check_all: its results list
    trail,          \* history: the events dispatched and the tracker updates run, in order
    ca_pass,        \* history: the number of this call of check_all
    ca_ids          \* history: ca_ids[i]: the position unit i had in the first listing

VARIABLES
    pid_file,       \* daemon: the PID file: None when absent, else the PID it holds
    d_pc,           \* daemon: d_pc[d]: where the start() of instance d, or its daemon, is
    d_running,      \* daemon: d_running[d]: Daemon._running of instance d
    d_k,            \* daemon: d_k[d]: the seconds slept since the last pass
    d_ret,          \* daemon: d_ret[d]: what start() returned to its caller, None before
    d_signalled,    \* history: d_signalled[d]: signal_handler of d has run
    d_after         \* history: d_after[d]: the passes d began since signal_handler ran

VARIABLES
    cli,            \* commands: cli[p]: the --holder and the exit status of p's lock release
    inside          \* with blocks: inside[p]: p is inside `with lock:` on its MergeLock

VARIABLES
    hw_interval,    \* heartbeat: HeartbeatWriter.interval
    hw_wake,        \* heartbeat: the clock reading at which the writer's time.sleep ends
    hw_written,     \* history: a _write_heartbeat of the writer has returned
    hw_failed,      \* history: a _write_heartbeat of the writer has raised
    sp_pc,          \* spawn: where AgentSpawner.spawn is
    sp_path,        \* spawn: how its body was left: "finally", "except", "raised"
    sp_claimed,     \* spawn: AgentSpawner._claimed_issue is set
    sp_proc,        \* spawn: AgentSpawner._heartbeat_proc is set
    sp_exit,        \* spawn: agent_exit, then what spawn returned; None before
    sp_deadline,    \* spawn: the clock reading at which wait(timeout=5) gives up
    unit,           \* spawn: status and assignee of the work unit in the tracker
    agent,          \* spawn: the agent command: none, running, exited
    sp_claims,      \* history: claim_issue returned True in this spawn
    sp_unclaims,    \* history: the outcomes of the unclaim_issue calls of this spawn
    sp_stopped      \* history: _stop_heartbeat has ended for a writer spawn started

healthVars == <<task, hb, health>>
clockVars == <<clock, hw_interval>>
writeVars == <<hw_wake, hw_written, hw_failed>>
spawnVars == <<sp_pc, sp_path, sp_claimed, sp_proc, sp_exit, sp_deadline, unit, agent,
               sp_claims, sp_unclaims, sp_stopped>>
\* One workspace: its clock, its spawn and what the timing of its writer needs.
workVars == <<clockVars, writeVars, spawnVars>>
\* The callers of the lock other than FinishCommand.run.
cliVars == <<cli, inside>>
daemonVars == <<pid_file, d_pc, d_running, d_k, d_ret, d_signalled, d_after>>
checkVars == <<auto_recover, tasks, tracker, ca_pc, ca_i, ca_results, trail, ca_pass, ca_ids>>
beatVars == <<hw_pc, hw_running, heartbeat_file, hw_signalled, hw_unlinked, hw_after>>
eventVars == <<dispatcher, config, event, dpc, plugins, idx, results, thread, log, host, started, finished>>

\* The variables of the components a lock or finish step does not touch.
otherVars == <<healthVars, eventVars, beatVars, checkVars, daemonVars, cliVars, workVars>>

lockVars == <<ref, pc, op, arg, acq, hld, elapsed, tries, meta, ret, rc, st, queue, overtaken, owners, written>>
lockRest == <<ref, op, arg, acq, hld, elapsed, tries, meta, ret, rc, st, queue, overtaken, owners, written>>
finVars == <<fin, fres, did>>
vars == <<lockVars, finVars, otherVars>>

NoStatus == Free
\* rc[p] when the call has run no fetch and no delete push of its own.
NoRc == -1
NoRun == [active |-> FALSE, issue |-> "", pending |-> "none", merged |-> FALSE]

\* No command has been run.
NoCommand == [holder |-> None, exit |-> None]

\* MergeLock.__init__ for every process, no FinishCommand running, no command
\* and no with block.
InitLocal ==
    /\ cli = [p \in Procs |-> NoCommand]
    /\ inside = [p \in Procs |-> FALSE]
    /\ pc = [p \in Procs |-> "idle"]
    /\ op = [p \in Procs |-> "none"]
    /\ arg = [p \in Procs |-> None]
    /\ acq = [p \in Procs |-> FALSE]
    /\ hld = [p \in Procs |-> None]
    /\ elapsed = [p \in Procs |-> 0]
    /\ tries = [p \in Procs |-> 0]
    /\ meta = [p \in Procs |-> None]
    /\ ret = [p \in Procs |-> "none"]
    /\ rc = [p \in Procs |-> NoRc]
    /\ st = [p \in Procs |-> NoStatus]
    /\ fin = [p \in Procs |-> NoRun]
    /\ fres = [p \in Procs |-> "none"]
    /\ did = [p \in Procs |-> {}]
    /\ queue = <<>>
    /\ overtaken = [p \in Procs |-> FALSE]
    /\ owners = {}
    /\ written = None

\* No health check is under way.
NoTask == [status |-> "open", worktree |-> FALSE, file |-> NoFile,
           proc |-> [bound |-> FALSE, lsof |-> "ok"]]
\* No dispatch is under way: the dispatcher has not been called, no thread
\* exists, the log is empty.
InitEvents ==
    /\ event = None
    /\ dpc = "idle"
    /\ plugins = <<>>
    /\ idx = 1
    /\ results = <<>>
    /\ thread = [n \in 1..MaxPlugins |-> "none"]
    /\ log = <<>>
    /\ host = "running"
    /\ started = <<>>
    /\ finished = <<>>

\* A HeartbeatWriter has been made and start() not yet called; no record.
InitBeat ==
    /\ hw_pc = "init"
    /\ hw_running = FALSE
    /\ heartbeat_file = NoFile
    /\ hw_signalled = FALSE
    /\ hw_unlinked = FALSE
    /\ hw_after = 0

\* A HealthChecker has been made and check_all not yet called.
InitCheck ==
    /\ ca_pc = "idle"
    /\ ca_i = 1
    /\ ca_results = <<>>
    /\ trail = <<>>
    /\ ca_pass = 1
    /\ ca_ids = [i \in 1..Len(tasks) |-> i]

\* The unit as the tracker has it before anybody claimed it.
Unclaimed == [status |-> "open", assignee |-> None]

\* An AgentSpawner has been made and spawn() not yet called.
InitSpawn ==
    /\ sp_pc = "init"
    /\ sp_path = "none"
    /\ sp_claimed = FALSE
    /\ sp_proc = FALSE
    /\ sp_exit = None
    /\ sp_deadline = 0
    /\ unit = Unclaimed
    /\ agent = "none"
    /\ sp_claims = FALSE
    /\ sp_unclaims = <<>>
    /\ sp_stopped = FALSE

\* No write of the writer has begun.
InitWrite ==
    /\ hw_wake = 0
    /\ hw_written = FALSE
    /\ hw_failed = FALSE

\* Nothing happens in the workspace; the clock reads MaxAge, the latest stamp
\* a record found there may hold.
InitWork ==
    /\ clock = MaxAge
    /\ hw_interval = MaxInterval
    /\ InitWrite
    /\ InitSpawn

\* No PID file, and no instance has called start().
InitDaemon ==
    /\ pid_file = None
    /\ d_pc = [d \in Daemons |-> "init"]
    /\ d_running = [d \in Daemons |-> FALSE]
    /\ d_k = [d \in Daemons |-> 0]
    /\ d_ret = [d \in Daemons |-> None]
    /\ d_signalled = [d \in Daemons |-> FALSE]
    /\ d_after = [d \in Daemons |-> 0]

InitOther ==
    /\ InitWork
    /\ InitBeat
    /\ InitDaemon
    /\ auto_recover = FALSE /\ tasks = <<>> /\ tracker = <<>> /\ InitCheck
    /\ task = NoTask
    /\ hb = None
    /\ health = None
    /\ dispatcher = [by |-> "cmd_events_emit", log_file |-> Some(EVENTS_LOG)]
    /\ config = <<>>
    /\ InitEvents

\* The reference is absent from the remote.
Init == ref = NoRef /\ InitLocal /\ InitOther

\* Where a MergeLock method returns to: FinishCommand.run when p is in one,
\* the top level otherwise.
ReturnTo(p, method) ==
    IF ~fin[p].active THEN "idle"
    ELSE IF method = "acquire" THEN "fin_acquired"
    ELSE "fin_released"

\* A call from the top level starts: what the last call and the last run left
\* behind is dropped.
TopLevel(p) ==
    /\ pc[p] = "idle"
    /\ fres' = [fres EXCEPT ![p] = "none"]
    /\ did' = [did EXCEPT ![p] = {}]
    /\ overtaken' = [overtaken EXCEPT ![p] = FALSE]
    /\ UNCHANGED fin

(* ------------------------- MergeLock.acquire -------------------------- *)

\* lock = MergeLock(repo); lock.acquire(h): the new instance, the deadline
\* and the metadata.
BeginAcquire(p, h, t) ==
    /\ acq' = [acq EXCEPT ![p] = FALSE]
    /\ hld' = [hld EXCEPT ![p] = None]
    /\ op' = [op EXCEPT ![p] = "acquire"]
    /\ arg' = [arg EXCEPT ![p] = Some(h)]
    /\ elapsed' = [elapsed EXCEPT ![p] = 0]
    /\ tries' = [tries EXCEPT ![p] = 0]
    /\ meta' = [meta EXCEPT ![p] = Some(LockMetadata(h, t, HostOf(p), PidOf(p)))]
    /\ ret' = [ret EXCEPT ![p] = "none"]
    /\ rc' = [rc EXCEPT ![p] = NoRc]
    /\ pc' = [pc EXCEPT ![p] = "acq_loop"]
    /\ queue' = Append(queue, p)
    /\ overtaken' = [overtaken EXCEPT ![p] = FALSE]

\* acquire(holder) on a new instance, from the top level.
AcquireCall(p) ==
    /\ TopLevel(p)
    /\ \E h \in Holders, t \in Times : BeginAcquire(p, h, t)
    /\ st' = [st EXCEPT ![p] = NoStatus]
    /\ UNCHANGED <<ref, owners, written>>
    /\ UNCHANGED otherVars

\* json.dumps(metadata.to_dict()), the content of the blob.
LockData(p) == JsonDumps(ToDict(meta[p][1]))

\* The processes that called acquire before p did and are still inside it.
AheadOf(p) ==
    {queue[i] : i \in {j \in 1..Len(queue) : \E k \in (j + 1)..Len(queue) : queue[k] = p}}

\* acquire returns r: its locals go.
AcquireReturn(p, r) ==
    /\ queue' = SelectSeq(queue, LAMBDA x : x # p)
    /\ overtaken' = [x \in Procs |-> overtaken[x] \/ (r = "true" /\ x \in AheadOf(p))]
    /\ ret' = [ret EXCEPT ![p] = r]
    /\ pc' = [pc EXCEPT ![p] = ReturnTo(p, "acquire")]
    /\ elapsed' = [elapsed EXCEPT ![p] = 0]
    /\ tries' = [tries EXCEPT ![p] = 0]
    /\ meta' = [meta EXCEPT ![p] = None]

\* A mutant of BeforeDeadline: a waiter that gives up at once.
BeforeDeadlineNever(p) == FALSE

\* A mutant of BeforeDeadline: a waiter that never gives up.
BeforeDeadlineAlways(p) == TRUE

\* while time.time() < deadline
BeforeDeadline(p) == elapsed[p] < LockTimeout

\* One turn of the while loop up to the push: the deadline test, the three
\* object commands (objs: they all succeeded) and the create push.
AcquireAttempt(p) ==
    /\ pc[p] = "acq_loop"
    /\ \E objs \in BOOLEAN, reach \in BOOLEAN :
         LET push == PushCreate(ref, LockCommit(LockData(p)), reach)
         IN  IF ~BeforeDeadline(p)
             THEN /\ AcquireReturn(p, "false")
                  /\ UNCHANGED <<ref, acq, hld, owners, written>>
             ELSE IF ~objs
             THEN /\ pc' = [pc EXCEPT ![p] = "acq_sleep"]
                  /\ tries' = [tries EXCEPT ![p] = @ + 1]
                  /\ UNCHANGED <<ref, acq, hld, ret, elapsed, meta, queue, overtaken, owners, written>>
             ELSE IF push.rc = 0
             THEN /\ ref' = push.ref
                  /\ acq' = [acq EXCEPT ![p] = TRUE]
                  /\ hld' = [hld EXCEPT ![p] = arg[p]]
                  /\ AcquireReturn(p, "true")
                  /\ owners' = owners \cup {p}
                  /\ written' = meta[p]
             ELSE /\ pc' = [pc EXCEPT ![p] = "acq_status"]
                  /\ tries' = [tries EXCEPT ![p] = @ + 1]
                  /\ UNCHANGED <<ref, acq, hld, ret, elapsed, meta, queue, overtaken, owners, written>>
    /\ UNCHANGED <<op, arg, rc, st, finVars>>
    /\ UNCHANGED otherVars

\* The status() call after a rejected push; its result is only printed, an
\* exception it raises leaves acquire.
AcquireStatus(p) ==
    /\ pc[p] = "acq_status"
    /\ \E reach \in BOOLEAN, read \in Reads :
         LET s == StatusOf(ref, reach, read)
         IN  IF s.exc # "none"
             THEN AcquireReturn(p, "raised")
             ELSE /\ pc' = [pc EXCEPT ![p] = "acq_sleep"]
                  /\ UNCHANGED <<ret, elapsed, tries, meta, queue, overtaken>>
    /\ UNCHANGED <<ref, op, arg, acq, hld, rc, st, owners, written, finVars>>
    /\ UNCHANGED otherVars

\* time.sleep(POLL_INTERVAL)
SleepTime(p) == POLL_INTERVAL

AcquireSleep(p) ==
    /\ pc[p] = "acq_sleep"
    /\ elapsed' = [elapsed EXCEPT ![p] = @ + SleepTime(p)]
    /\ pc' = [pc EXCEPT ![p] = "acq_loop"]
    /\ UNCHANGED <<ref, op, arg, acq, hld, tries, meta, ret, rc, st, owners, written, finVars>>
    /\ UNCHANGED <<queue, overtaken>>
    /\ UNCHANGED otherVars

(* ------------------------- MergeLock.release -------------------------- *)

\* The head of release(holder): with a holder the ownership check comes
\* first, without one the delete push.
BeginRelease(p, h) ==
    /\ op' = [op EXCEPT ![p] = "release"]
    /\ arg' = [arg EXCEPT ![p] = h]
    /\ ret' = [ret EXCEPT ![p] = "none"]
    /\ rc' = [rc EXCEPT ![p] = NoRc]
    /\ pc' = [pc EXCEPT ![p] = IF h # None THEN "rel_status" ELSE "rel_push"]

\* release(holder) or release() on p's instance, from the top level.
ReleaseCall(p) ==
    /\ TopLevel(p)
    /\ \E h \in {None} \cup {Some(x) : x \in Holders} : BeginRelease(p, h)
    /\ st' = [st EXCEPT ![p] = NoStatus]
    /\ UNCHANGED <<ref, acq, hld, elapsed, tries, meta, owners, written>>
    /\ UNCHANGED queue
    /\ UNCHANGED otherVars

\* The ownership test of release: held, and by another holder.
Refuses(status, h) == status.held /\ HolderOf(status) # h

\* status = self.status() and the ownership test.
ReleaseStatus(p) ==
    /\ pc[p] = "rel_status"
    /\ \E reach \in BOOLEAN, read \in Reads :
         LET s == StatusOf(ref, reach, read)
         IN  IF s.exc # "none"
             THEN /\ ret' = [ret EXCEPT ![p] = "raised"]
                  /\ pc' = [pc EXCEPT ![p] = ReturnTo(p, "release")]
             ELSE IF Refuses(s.val[1], arg[p])
             THEN /\ ret' = [ret EXCEPT ![p] = "false"]
                  /\ pc' = [pc EXCEPT ![p] = ReturnTo(p, "release")]
             ELSE /\ pc' = [pc EXCEPT ![p] = "rel_push"]
                  /\ UNCHANGED ret
    /\ UNCHANGED <<ref, op, arg, acq, hld, elapsed, tries, meta, rc, st, owners, written, finVars>>
    /\ UNCHANGED <<queue, overtaken>>
    /\ UNCHANGED otherVars

\* The stderr of the delete push, as the set of phrases the code looks for.
StderrOf(d) ==
    IF d.gone THEN {"unable to delete", "remote ref does not exist"} ELSE {}

\* A mutant of ReleaseSucceeded: only return code 0 counts.
ReleaseSucceededRcOnly(d) == d.rc = 0

\* release: return code 0, or a stderr saying the reference is not there.
ReleaseSucceeded(d) ==
    \/ d.rc = 0
    \/ "unable to delete" \in StderrOf(d)
    \/ "remote ref does not exist" \in StderrOf(d)

\* The history variables after a delete push d.
Deleted(d) ==
    IF d.rc = 0
    THEN owners' = {} /\ written' = None
    ELSE UNCHANGED <<owners, written>>

\* The delete push of release and what follows it.
ReleasePush(p) ==
    /\ pc[p] = "rel_push"
    /\ \E reach \in BOOLEAN :
         LET d == PushDelete(ref, reach)
         IN  /\ ref' = d.ref
             /\ rc' = [rc EXCEPT ![p] = d.rc]
             /\ Deleted(d)
             /\ IF ReleaseSucceeded(d)
                THEN /\ acq' = [acq EXCEPT ![p] = FALSE]
                     /\ hld' = [hld EXCEPT ![p] = None]
                     /\ ret' = [ret EXCEPT ![p] = "true"]
                ELSE /\ ret' = [ret EXCEPT ![p] = "false"]
                     /\ UNCHANGED <<acq, hld>>
    /\ pc' = [pc EXCEPT ![p] = ReturnTo(p, "release")]
    /\ UNCHANGED <<op, arg, elapsed, tries, meta, st, finVars>>
    /\ UNCHANGED <<queue, overtaken>>
    /\ UNCHANGED otherVars

(* ---------------------- MergeLock.force_release ----------------------- *)

\* A mutant of ForceSucceeded: only return code 0 counts.
ForceSucceededRcOnly(d) == d.rc = 0

\* return result.returncode == 0 or "remote ref does not exist" in stderr
ForceSucceeded(d) == d.rc = 0 \/ "remote ref does not exist" \in StderrOf(d)

\* force_release() is called on p's instance, from the top level.
ForceReleaseCall(p) ==
    /\ TopLevel(p)
    /\ op' = [op EXCEPT ![p] = "force_release"]
    /\ arg' = [arg EXCEPT ![p] = None]
    /\ ret' = [ret EXCEPT ![p] = "none"]
    /\ rc' = [rc EXCEPT ![p] = NoRc]
    /\ st' = [st EXCEPT ![p] = NoStatus]
    /\ pc' = [pc EXCEPT ![p] = "force_push"]
    /\ UNCHANGED <<ref, acq, hld, elapsed, tries, meta, owners, written>>
    /\ UNCHANGED queue
    /\ UNCHANGED otherVars

\* The body of force_release(): one delete push, no ownership check; the
\* flags are reset whatever the push did.
ForceRelease(p) ==
    /\ pc[p] = "force_push"
    /\ \E reach \in BOOLEAN :
         LET d == PushDelete(ref, reach)
         IN  /\ ref' = d.ref
             /\ rc' = [rc EXCEPT ![p] = d.rc]
             /\ Deleted(d)
             /\ ret' = [ret EXCEPT ![p] = IF ForceSucceeded(d) THEN "true" ELSE "false"]
    /\ acq' = [acq EXCEPT ![p] = FALSE]
    /\ hld' = [hld EXCEPT ![p] = None]
    /\ pc' = [pc EXCEPT ![p] = "idle"]
    /\ UNCHANGED <<op, arg, elapsed, tries, meta, st, finVars>>
    /\ UNCHANGED <<queue, overtaken>>
    /\ UNCHANGED otherVars

(* ------------------------------ status() ------------------------------ *)

\* status() is called from the top level (cmd_lock_status).
StatusCall(p) ==
    /\ TopLevel(p)
    /\ op' = [op EXCEPT ![p] = "status"]
    /\ arg' = [arg EXCEPT ![p] = None]
    /\ ret' = [ret EXCEPT ![p] = "none"]
    /\ rc' = [rc EXCEPT ![p] = NoRc]
    /\ st' = [st EXCEPT ![p] = NoStatus]
    /\ pc' = [pc EXCEPT ![p] = "status_run"]
    /\ UNCHANGED <<ref, acq, hld, elapsed, tries, meta, owners, written>>
    /\ UNCHANGED queue
    /\ UNCHANGED otherVars

\* The body of status(): the fetch and the reads of what it fetched.
Status(p) ==
    /\ pc[p] = "status_run"
    /\ \E reach \in BOOLEAN, read \in Reads :
         LET s == StatusOf(ref, reach, read)
         IN  /\ ret' = [ret EXCEPT ![p] = IF s.exc = "none" THEN "status" ELSE "raised"]
             /\ st' = [st EXCEPT ![p] = IF s.exc = "none" THEN s ELSE NoStatus]
             /\ rc' = [rc EXCEPT ![p] = Fetch(ref, reach).rc]
    /\ pc' = [pc EXCEPT ![p] = "idle"]
    /\ UNCHANGED <<ref, op, arg, acq, hld, elapsed, tries, meta, owners, written, finVars>>
    /\ UNCHANGED <<queue, overtaken>>
    /\ UNCHANGED otherVars

(* --------------------- MergeLock as a context manager ------------------ *)

\* __enter__: return self, and nothing else.
Enter(p) ==
    /\ pc[p] = "idle"
    /\ ~inside[p]
    /\ inside' = [inside EXCEPT ![p] = TRUE]
    /\ UNCHANGED <<lockVars, finVars, cli>>
    /\ UNCHANGED <<healthVars, eventVars, beatVars, checkVars, daemonVars, workVars>>

\* The truth value of self._holder: None and the empty string are false.
Truthy(h) == h # None /\ h[1] # ""

\* A mutant of ExitReleases: __exit__ releases whatever the flag says.
ExitReleasesAlways(p) == TRUE

\* if self._acquired and self._holder
ExitReleases(p) == acq[p] /\ Truthy(hld[p])

\* __exit__: self.release(self._holder) when the instance holds the lock.
Exit(p) ==
    /\ TopLevel(p)
    /\ inside[p]
    /\ inside' = [inside EXCEPT ![p] = FALSE]
    /\ IF ExitReleases(p)
       THEN BeginRelease(p, hld[p])
       ELSE UNCHANGED <<pc, op, arg, ret, rc>>
    /\ UNCHANGED <<ref, acq, hld, elapsed, tries, meta, st, queue, owners, written, cli>>
    /\ UNCHANGED <<healthVars, eventVars, beatVars, checkVars, daemonVars, workVars>>

(* -------------------------- cmd_lock_release -------------------------- *)

\* `tambour lock release [--holder NAME]` up to the call on the lock: the
\* repository is looked up (repo: found), a MergeLock is made and
\* force_release() called; args.holder is not read.
CmdLockRelease(p) ==
    /\ TopLevel(p)
    /\ \E holder \in {None} \cup {Some(h) : h \in Holders}, repo \in BOOLEAN :
         /\ cli' = [cli EXCEPT ![p] = [holder |-> holder,
                                       exit |-> IF repo THEN None ELSE Some(1)]]
         /\ IF repo
            THEN /\ op' = [op EXCEPT ![p] = "force_release"]
                 /\ acq' = [acq EXCEPT ![p] = FALSE]
                 /\ hld' = [hld EXCEPT ![p] = None]
                 /\ pc' = [pc EXCEPT ![p] = "cli_force"]
            ELSE /\ op' = [op EXCEPT ![p] = "none"]
                 /\ UNCHANGED <<acq, hld, pc>>
    /\ arg' = [arg EXCEPT ![p] = None]
    /\ ret' = [ret EXCEPT ![p] = "none"]
    /\ rc' = [rc EXCEPT ![p] = NoRc]
    /\ st' = [st EXCEPT ![p] = NoStatus]
    /\ UNCHANGED <<ref, elapsed, tries, meta, queue, owners, written, inside>>
    /\ UNCHANGED <<healthVars, eventVars, beatVars, checkVars, daemonVars, workVars>>

\* The status the command exits with once force_release has returned.
LockReleaseExit(released) == 0

\* force_release() for the command, the message printed and return 0.
CmdLockReleaseRun(p) ==
    /\ pc[p] = "cli_force"
    /\ \E reach \in BOOLEAN :
         LET d == PushDelete(ref, reach)
         IN  /\ ref' = d.ref
             /\ rc' = [rc EXCEPT ![p] = d.rc]
             /\ Deleted(d)
             /\ ret' = [ret EXCEPT ![p] = IF ForceSucceeded(d) THEN "true" ELSE "false"]
             /\ cli' = [cli EXCEPT ![p].exit = Some(LockReleaseExit(ForceSucceeded(d)))]
    /\ acq' = [acq EXCEPT ![p] = FALSE]
    /\ hld' = [hld EXCEPT ![p] = None]
    /\ pc' = [pc EXCEPT ![p] = "idle"]
    /\ UNCHANGED <<op, arg, elapsed, tries, meta, st, finVars>>
    /\ UNCHANGED <<queue, overtaken, inside>>
    /\ UNCHANGED <<healthVars, eventVars, beatVars, checkVars, daemonVars, workVars>>

(* ------------------------- FinishCommand.run -------------------------- *)

\* p's run takes the step named cmd and goes to position next.
FinishStep(p, cmd, next) ==
    /\ did' = [did EXCEPT ![p] = @ \cup {cmd}]
    /\ pc' = [pc EXCEPT ![p] = next]

\* The try block is left by a return (how = "fail") or an exception
\* (how = "raise"): the finally clause runs next.
FinishLeave(p, cmd, how) ==
    /\ did' = [did EXCEPT ![p] = @ \cup {cmd}]
    /\ fin' = [fin EXCEPT ![p].pending = how]
    /\ pc' = [pc EXCEPT ![p] = "fin_finally"]

\* run() up to the call of acquire: the worktree test (wt), the --merge flag
\* (merge), then MergeLock(self.main_repo) and acquire(self.issue_id).
FinishStart(p) ==
    /\ pc[p] = "idle"
    /\ did' = [did EXCEPT ![p] = {}]
    /\ st' = [st EXCEPT ![p] = NoStatus]
    /\ \E issue \in Holders, wt \in BOOLEAN, merge \in BOOLEAN, t \in Times :
         IF ~wt \/ ~merge
         THEN /\ fres' = [fres EXCEPT ![p] = IF ~wt THEN "no_worktree" ELSE "preserved"]
              /\ op' = [op EXCEPT ![p] = "none"]
              /\ arg' = [arg EXCEPT ![p] = None]
              /\ ret' = [ret EXCEPT ![p] = "none"]
              /\ rc' = [rc EXCEPT ![p] = NoRc]
              /\ overtaken' = [overtaken EXCEPT ![p] = FALSE]
              /\ UNCHANGED <<pc, acq, hld, elapsed, tries, meta, fin, queue>>
         ELSE /\ fres' = [fres EXCEPT ![p] = "none"]
              /\ fin' = [fin EXCEPT ![p] = [active |-> TRUE, issue |-> issue,
                                            pending |-> "none", merged |-> FALSE]]
              /\ BeginAcquire(p, issue, t)
    /\ UNCHANGED <<ref, owners, written>>
    /\ UNCHANGED otherVars

\* The commands the error of FinishResult r tells the operator to use.
ErrorHintsNone(r) == {}
ErrorHints(r) ==
    IF r = "lock_timeout" THEN {"tambour lock-status", "tambour lock-release"} ELSE {}

\* run() ends with result r.
FinishEnd(p, r) ==
    /\ fres' = [fres EXCEPT ![p] = r]
    /\ fin' = [fin EXCEPT ![p] = NoRun]
    /\ pc' = [pc EXCEPT ![p] = "idle"]
    /\ op' = [op EXCEPT ![p] = "none"]
    /\ arg' = [arg EXCEPT ![p] = None]
    /\ ret' = [ret EXCEPT ![p] = "none"]
    /\ rc' = [rc EXCEPT ![p] = NoRc]
    /\ overtaken' = [overtaken EXCEPT ![p] = FALSE]

\* A mutant of AcquireSucceeded: the value acquire returned is not looked at.
AcquireSucceededIgnored(p) == ret[p] # "raised"

\* The value of self._lock.acquire(self.issue_id).
AcquireSucceeded(p) == ret[p] = "true"

\* if not self._lock.acquire(self.issue_id): return the timeout result.
FinishAcquired(p) ==
    /\ pc[p] = "fin_acquired"
    /\ IF ret[p] = "raised" THEN FinishEnd(p, "raised")
       ELSE IF AcquireSucceeded(p)
       THEN /\ pc' = [pc EXCEPT ![p] = "fin_checkout"]
            /\ UNCHANGED <<fin, fres, op, arg, ret, rc, overtaken>>
       ELSE FinishEnd(p, "lock_timeout")
    /\ UNCHANGED <<ref, acq, hld, elapsed, tries, meta, st, owners, written, did>>
    /\ UNCHANGED queue
    /\ UNCHANGED otherVars

\* git checkout main, check=True: a failure raises CalledProcessError.
FinishCheckout(p) ==
    /\ pc[p] = "fin_checkout"
    /\ \E ok \in BOOLEAN :
         IF ok THEN FinishStep(p, "checkout", "fin_pull") /\ UNCHANGED fin
         ELSE FinishLeave(p, "checkout", "raise")
    /\ UNCHANGED <<lockRest, fres>>
    /\ UNCHANGED otherVars

\* git pull origin main --ff-only, then _branch_exists() (exists).
FinishPull(p) ==
    /\ pc[p] = "fin_pull"
    /\ \E ok \in BOOLEAN, exists \in BOOLEAN :
         IF ~ok THEN FinishLeave(p, "pull", "fail")
         ELSE IF exists THEN FinishStep(p, "pull", "fin_merge") /\ UNCHANGED fin
         ELSE /\ did' = [did EXCEPT ![p] = @ \cup {"pull"}]
              /\ fin' = [fin EXCEPT ![p].merged = TRUE]
              /\ pc' = [pc EXCEPT ![p] = "fin_finally"]
    /\ UNCHANGED <<lockRest, fres>>
    /\ UNCHANGED otherVars

\* git merge <branch> --no-edit
FinishMerge(p) ==
    /\ pc[p] = "fin_merge"
    /\ \E ok \in BOOLEAN :
         IF ok
         THEN /\ FinishStep(p, "merge", "fin_push")
              /\ fin' = [fin EXCEPT ![p].merged = TRUE]
         ELSE FinishLeave(p, "merge", "fail")
    /\ UNCHANGED <<lockRest, fres>>
    /\ UNCHANGED otherVars

\* git push origin main
FinishPush(p) ==
    /\ pc[p] = "fin_push"
    /\ \E ok \in BOOLEAN :
         IF ok THEN FinishStep(p, "push", "fin_emit") /\ UNCHANGED fin
         ELSE FinishLeave(p, "push", "fail")
    /\ UNCHANGED <<lockRest, fres>>
    /\ UNCHANGED otherVars

\* self._emit_event("branch.merged"): best effort, never raises.
FinishEmit(p) ==
    /\ pc[p] = "fin_emit"
    /\ FinishStep(p, "emit branch.merged", "fin_finally")
    /\ UNCHANGED <<lockRest, fin, fres>>
    /\ UNCHANGED otherVars

\* if self._lock and self._lock.is_acquired
MustRelease(p) == acq[p]

\* finally: release(self.issue_id) when the instance holds the lock.
FinishFinally(p) ==
    /\ pc[p] = "fin_finally"
    /\ IF MustRelease(p)
       THEN BeginRelease(p, Some(fin[p].issue))
       ELSE pc' = [pc EXCEPT ![p] = "fin_released"] /\ UNCHANGED <<op, arg, ret, rc>>
    /\ UNCHANGED <<ref, acq, hld, elapsed, tries, meta, st, owners, written, finVars>>
    /\ UNCHANGED <<queue, overtaken>>
    /\ UNCHANGED otherVars

\* After the finally clause: a pending return or exception takes effect (the
\* value release returned is not looked at); otherwise the worktree is
\* detached and removed, the branch deleted, the issue closed and
\* task.completed emitted, none of which can fail the run.
FinishReleased(p) ==
    /\ pc[p] = "fin_released"
    /\ IF op[p] = "release" /\ ret[p] = "raised"
       THEN FinishEnd(p, "raised") /\ UNCHANGED did
       ELSE IF fin[p].pending = "raise"
       THEN FinishEnd(p, "raised") /\ UNCHANGED did
       ELSE IF fin[p].pending = "fail"
       THEN FinishEnd(p, "failed") /\ UNCHANGED did
       ELSE /\ FinishEnd(p, "success")
            /\ did' = [did EXCEPT ![p] = @ \cup {"worktree remove", "branch delete",
                                                 "close", "emit task.completed"}]
    /\ UNCHANGED <<ref, acq, hld, elapsed, tries, meta, st, owners, written>>
    /\ UNCHANGED queue
    /\ UNCHANGED otherVars

(* ------------------------ HealthChecker.check_task -------------------- *)

\* check_task(issue_id) for the unit found: _check_task(task).
HealthCheck ==
    /\ health = None
    /\ hb' = HeartbeatOf(task)
    /\ health' = Some(CheckTask(task))
    /\ UNCHANGED <<task, lockVars, finVars, cliVars, workVars, eventVars, beatVars, checkVars, daemonVars>>

(* ----------------------- EventDispatcher.dispatch ---------------------- *)

\* What a step of the dispatcher, of one of its threads or of its host
\* leaves alone.
EventFrame == UNCHANGED <<lockVars, finVars, cliVars, workVars, healthVars, beatVars, checkVars, daemonVars, dispatcher, config>>

\* dispatch(event) is called: the subscriptions of the event are looked up.
Dispatch ==
    /\ dpc = "idle"
    /\ \E event_type \in EventsOf(dispatcher) :
           /\ event' = Some(event_type)
           /\ plugins' = GetPluginsForEvent(config, event_type)
    /\ dpc' = "loop"
    /\ idx' = 1
    /\ results' = <<>>
    /\ UNCHANGED <<thread, log, host, started, finished>>
    /\ EventFrame

\* The loop comes to a blocking plugin: _execute_plugin starts its command.
DispatchBlocking ==
    /\ dpc = "loop"
    /\ idx <= Len(plugins)
    /\ plugins[idx].blocking
    /\ dpc' = "exec"
    /\ started' = Append(started, plugins[idx].name)
    /\ UNCHANGED <<event, plugins, idx, results, thread, log, host, finished>>
    /\ EventFrame

\* The command of the blocking plugin has ended: the result is logged and
\* appended, and the loop breaks when it is not a success.
DispatchBlockingResult ==
    /\ dpc = "exec"
    /\ LET result == ExecutePlugin(plugins[idx])
       IN  /\ \E appended \in BOOLEAN :
                  log' = LogResult(log, dispatcher.log_file, result, appended)
           /\ results' = Append(results, result)
           /\ finished' = Append(finished, plugins[idx].name)
           /\ IF Stops(result)
              THEN dpc' = "returned" /\ idx' = idx
              ELSE dpc' = "loop" /\ idx' = idx + 1
    /\ UNCHANGED <<event, plugins, thread, host, started>>
    /\ EventFrame

\* The loop comes to a non-blocking plugin: _dispatch_async starts a thread
\* for it and the loop appends the marker result.
DispatchAsync ==
    /\ dpc = "loop"
    /\ idx <= Len(plugins)
    /\ ~plugins[idx].blocking
    /\ thread' = [thread EXCEPT ![plugins[idx].name] = "started"]
    /\ results' = Append(results, AsyncStarted(plugins[idx]))
    /\ idx' = idx + 1
    /\ UNCHANGED <<event, dpc, plugins, log, host, started, finished>>
    /\ EventFrame

\* The for loop has run out of plugins.
LoopDoneJoined == idx > Len(plugins) /\ \A n \in DOMAIN thread : thread[n] \in {"none", "done"}
LoopDone == idx > Len(plugins)

\* return results, at the end of the loop.
DispatchReturn ==
    /\ dpc = "loop"
    /\ LoopDone
    /\ dpc' = "returned"
    /\ UNCHANGED <<event, plugins, idx, results, thread, log, host, started, finished>>
    /\ EventFrame

\* The thread of plugin n is scheduled: task() calls _execute_plugin, which
\* starts the command.
ThreadRun(n) ==
    /\ thread[n] = "started"
    /\ thread' = [thread EXCEPT ![n] = "running"]
    /\ started' = Append(started, n)
    /\ UNCHANGED <<event, dpc, plugins, idx, results, log, host, finished>>
    /\ EventFrame

\* The command of the thread of plugin n has ended: task() logs the result
\* and the thread ends.
ThreadResult(n) ==
    /\ thread[n] = "running"
    /\ thread' = [thread EXCEPT ![n] = "done"]
    /\ \E appended \in BOOLEAN :
           log' = LogResult(log, dispatcher.log_file, ExecutePlugin(config[n]), appended)
    /\ finished' = Append(finished, n)
    /\ UNCHANGED <<event, dpc, plugins, idx, results, host, started>>
    /\ EventFrame

\* The caller of dispatch has its results and returns: main() calls sys.exit
\* and the interpreter shuts down.
HostReturn ==
    /\ dpc = "returned"
    /\ host = "running"
    /\ host' = "shutdown"
    /\ UNCHANGED <<event, dpc, plugins, idx, results, thread, log, started, finished>>
    /\ EventFrame

\* The threads are made with daemon=False: the interpreter's shutdown joins
\* every one of them before the process ends.
ThreadsJoined == \A n \in DOMAIN thread : thread[n] \in {"none", "done"}

\* The process ends.
HostExit ==
    /\ host = "shutdown"
    /\ ThreadsJoined
    /\ host' = "exited"
    /\ UNCHANGED <<event, dpc, plugins, idx, results, thread, log, started, finished>>
    /\ EventFrame

(* ------------------------ HeartbeatWriter.start ----------------------- *)

\* What a step of the heartbeat writer leaves alone.
BeatFrame == UNCHANGED <<lockVars, finVars, cliVars, workVars, healthVars, eventVars, checkVars, daemonVars>>

\* The record _write_heartbeat writes when the clock reads t.
WrittenRecord(t) ==
    HeartbeatFile(TRUE, JsonDumps([timestamp |-> Stamp(t, None, TRUE), pid |-> 1]))

\* The record once open(self.heartbeat_file, "w") has truncated it.
Truncated == HeartbeatFile(TRUE, [text |-> "invalid", obj |-> [raw |-> ""]])

\* What a step of _write_heartbeat leaves alone.
WriteFrame ==
    UNCHANGED <<lockVars, finVars, cliVars, clockVars, spawnVars,
                healthVars, eventVars, checkVars, daemonVars>>

\* start(): the directory is made, _running set and the handlers installed.
WriterStart ==
    /\ hw_pc = "init"
    /\ hw_running' = TRUE
    /\ hw_pc' = "loop"
    /\ UNCHANGED <<heartbeat_file, hw_signalled, hw_unlinked, hw_after>>
    /\ BeatFrame

\* _stop(signum, frame): SIGTERM or SIGINT arrives once the handlers are
\* installed and before the process has ended.
StopKeeps(running) == running
Stop(running) == FALSE

WriterStop ==
    /\ hw_pc \notin {"none", "init", "exited", "killed"}
    /\ hw_running' = Stop(hw_running)
    /\ hw_signalled' = TRUE
    /\ UNCHANGED <<hw_pc, heartbeat_file, hw_unlinked, hw_after>>
    /\ BeatFrame

\* while self._running
WriterLoop ==
    /\ hw_pc = "loop"
    /\ hw_pc' = IF hw_running THEN "write" ELSE "unlink"
    /\ UNCHANGED <<hw_running, heartbeat_file, hw_signalled, hw_unlinked, hw_after>>
    /\ BeatFrame

\* _write_heartbeat() up to open(self.heartbeat_file, "w"): the file is
\* truncated, or open raises, the loop catches the exception and
\* time.sleep(5) begins.
WriterOpen ==
    /\ hw_pc = "write"
    /\ \/ /\ heartbeat_file' = Truncated
          /\ hw_pc' = "dump"
          /\ UNCHANGED <<hw_wake, hw_failed>>
       \/ /\ hw_pc' = "retry"
          /\ hw_wake' = clock + RETRY_DELAY
          /\ hw_failed' = TRUE
          /\ UNCHANGED heartbeat_file
    /\ hw_after' = IF hw_signalled THEN hw_after + 1 ELSE hw_after
    /\ UNCHANGED <<hw_running, hw_signalled, hw_unlinked, hw_written>>
    /\ WriteFrame

\* json.dump, flush and fsync: the record is written and
\* time.sleep(self.interval) begins, or one of them raises, the file stays
\* empty and time.sleep(5) begins.
WriterDump ==
    /\ hw_pc = "dump"
    /\ \/ /\ heartbeat_file' = WrittenRecord(clock)
          /\ hw_pc' = "sleep"
          /\ hw_wake' = clock + hw_interval
          /\ hw_written' = TRUE
          /\ UNCHANGED hw_failed
       \/ /\ hw_pc' = "retry"
          /\ hw_wake' = clock + RETRY_DELAY
          /\ hw_failed' = TRUE
          /\ UNCHANGED <<heartbeat_file, hw_written>>
    /\ UNCHANGED <<hw_running, hw_signalled, hw_unlinked, hw_after>>
    /\ WriteFrame

\* time.sleep(self.interval), or time.sleep(5) after an exception, has ended.
WriterSleep ==
    /\ hw_pc \in {"sleep", "retry"}
    /\ hw_pc' = "loop"
    /\ UNCHANGED <<hw_running, heartbeat_file, hw_signalled, hw_unlinked, hw_after>>
    /\ BeatFrame

\* self.heartbeat_file.unlink(missing_ok=True)
WriterUnlink ==
    /\ hw_pc = "unlink"
    /\ heartbeat_file' = NoFile
    /\ hw_unlinked' = TRUE
    /\ hw_pc' = "exit"
    /\ UNCHANGED <<hw_running, hw_signalled, hw_after>>
    /\ BeatFrame

\* sys.exit(0)
WriterExit ==
    /\ hw_pc = "exit"
    /\ hw_pc' = "exited"
    /\ UNCHANGED <<hw_running, heartbeat_file, hw_signalled, hw_unlinked, hw_after>>
    /\ BeatFrame

\* The workspace is removed under the running writer (bd worktree remove in
\* FinishCommand.run): the record is gone.
WorktreeRemoved ==
    /\ hw_pc \notin {"none", "exited", "killed"}
    /\ heartbeat_file # NoFile
    /\ heartbeat_file' = NoFile
    /\ UNCHANGED <<hw_pc, hw_running, hw_signalled, hw_unlinked, hw_after>>
    /\ BeatFrame

(* -------------------------- AgentSpawner.spawn ------------------------ *)

\* What a step of spawn leaves alone.
SpawnFrame ==
    UNCHANGED <<lockVars, finVars, cliVars, clockVars, writeVars,
                healthVars, eventVars, checkVars, daemonVars>>

\* spawn() up to the claim: the issue is selected and the worktree reused or
\* created (ok), or spawn returns 1.
SpawnStart ==
    /\ sp_pc = "init"
    /\ \E ok \in BOOLEAN :
         IF ok THEN sp_pc' = "claim" /\ UNCHANGED sp_exit
         ELSE sp_pc' = "returned" /\ sp_exit' = Some(1)
    /\ UNCHANGED <<sp_path, sp_claimed, sp_proc, sp_deadline, unit, agent,
                   sp_claims, sp_unclaims, sp_stopped>>
    /\ UNCHANGED beatVars
    /\ SpawnFrame

\* The unit once `bd update <id> --claim` has claimed it.
Claimed == [status |-> "in_progress", assignee |-> Some("agent")]

\* BeadsClient.claim_issue: run, the command returned 0, which it does not
\* for a unit somebody else has claimed.
ClaimIssue(entry, run) == run /\ entry = Unclaimed

\* if self.beads.claim_issue(selected_id): self._claimed_issue = selected_id
SpawnClaim ==
    /\ sp_pc = "claim"
    /\ \E run \in BOOLEAN :
         IF ClaimIssue(unit, run)
         THEN unit' = Claimed /\ sp_claimed' = TRUE /\ sp_claims' = TRUE
         ELSE UNCHANGED <<unit, sp_claimed, sp_claims>>
    /\ sp_pc' = "start_hb"
    /\ UNCHANGED <<sp_path, sp_proc, sp_exit, sp_deadline, agent, sp_unclaims, sp_stopped>>
    /\ UNCHANGED beatVars
    /\ SpawnFrame

\* _build_prompt, whose `bd show` may fail (built) and spawn then raises;
\* then self._heartbeat_proc = self._start_heartbeat(...): Popen starts the
\* writer's process (ok) or raises and None is kept.
SpawnStartHeartbeat ==
    /\ sp_pc = "start_hb"
    /\ \E built \in BOOLEAN, ok \in BOOLEAN :
         IF built
         THEN /\ sp_proc' = ok
              /\ hw_pc' = IF ok THEN "init" ELSE hw_pc
              /\ sp_pc' = "run"
              /\ UNCHANGED sp_path
         ELSE /\ sp_pc' = "raised"
              /\ sp_path' = "raised"
              /\ UNCHANGED <<sp_proc, hw_pc>>
    /\ UNCHANGED <<sp_claimed, sp_exit, sp_deadline, unit, agent,
                   sp_claims, sp_unclaims, sp_stopped>>
    /\ UNCHANGED <<hw_running, heartbeat_file, hw_signalled, hw_unlinked, hw_after>>
    /\ SpawnFrame

\* The try block up to subprocess.run(cmd, cwd=worktree_path): the agent
\* command starts (ok), or writing the prompt file or starting the command
\* raises.
SpawnRun ==
    /\ sp_pc = "run"
    /\ \E ok \in BOOLEAN :
         IF ok
         THEN agent' = "running" /\ sp_pc' = "agent" /\ UNCHANGED sp_path
         ELSE sp_path' = "except" /\ sp_pc' = "stop" /\ UNCHANGED agent
    /\ UNCHANGED <<sp_claimed, sp_proc, sp_exit, sp_deadline, unit, sp_claims,
                   sp_unclaims, sp_stopped>>
    /\ UNCHANGED beatVars
    /\ SpawnFrame

\* The agent command exits: agent_exit = result.returncode.
AgentExit ==
    /\ sp_pc = "agent"
    /\ \E code \in {0, 1} : sp_exit' = Some(code)
    /\ agent' = "exited"
    /\ sp_path' = "finally"
    /\ sp_pc' = "stop"
    /\ UNCHANGED <<sp_claimed, sp_proc, sp_deadline, unit, sp_claims, sp_unclaims, sp_stopped>>
    /\ UNCHANGED beatVars
    /\ SpawnFrame

\* _stop_heartbeat up to wait: terminate() sends SIGTERM, which ends a writer
\* that has not installed its handler yet and runs _stop in one that has.
SpawnTerminate ==
    /\ sp_pc = "stop"
    /\ IF ~sp_proc
       THEN /\ sp_pc' = "cleanup"
            /\ UNCHANGED <<sp_deadline, beatVars>>
       ELSE /\ sp_pc' = "wait"
            /\ sp_deadline' = clock + STOP_WAIT
            /\ IF hw_pc = "init"
               THEN hw_pc' = "killed" /\ UNCHANGED <<hw_running, hw_signalled>>
               ELSE IF hw_pc \in {"exited", "killed"}
               THEN UNCHANGED <<hw_pc, hw_running, hw_signalled>>
               ELSE /\ hw_running' = Stop(hw_running)
                    /\ hw_signalled' = TRUE
                    /\ UNCHANGED hw_pc
            /\ UNCHANGED <<heartbeat_file, hw_unlinked, hw_after>>
    /\ UNCHANGED <<sp_path, sp_claimed, sp_proc, sp_exit, unit, agent,
                   sp_claims, sp_unclaims, sp_stopped>>
    /\ SpawnFrame

\* wait(timeout=5) raises TimeoutExpired.
WaitTimedOut(now, deadline) == now >= deadline

\* wait(timeout=5) returns because the writer's process has ended, or it
\* times out and kill() ends the process; self._heartbeat_proc = None.
SpawnWait ==
    /\ sp_pc = "wait"
    /\ IF hw_pc \in {"exited", "killed"}
       THEN UNCHANGED hw_pc
       ELSE WaitTimedOut(clock, sp_deadline) /\ hw_pc' = "killed"
    /\ sp_proc' = FALSE
    /\ sp_stopped' = TRUE
    /\ sp_pc' = "cleanup"
    /\ UNCHANGED <<sp_path, sp_claimed, sp_exit, sp_deadline, unit, agent,
                   sp_claims, sp_unclaims>>
    /\ UNCHANGED <<hw_running, heartbeat_file, hw_signalled, hw_unlinked, hw_after>>
    /\ SpawnFrame

\* A mutant of Unclaims: the unit is unclaimed whatever the agent returned.
UnclaimsAlways(path, exit, claimed) == claimed

\* The unit is unclaimed: _cleanup_on_failure runs (an exception, or
\* agent_exit != 0) and self._claimed_issue is set.
Unclaims(path, exit, claimed) == (path = "except" \/ exit # Some(0)) /\ claimed

\* BeadsClient.unclaim_issue: bd update <id> --status open --assignee "".
UnclaimIssue(entry, run) == IF run THEN Unclaimed ELSE entry

\* What follows _stop_heartbeat: the unit is unclaimed or
\* self._claimed_issue dropped, and spawn returns 1 after an exception,
\* agent_exit otherwise.
SpawnCleanup ==
    /\ sp_pc = "cleanup"
    /\ IF Unclaims(sp_path, sp_exit, sp_claimed)
       THEN \E run \in BOOLEAN :
                /\ unit' = UnclaimIssue(unit, run)
                /\ sp_unclaims' = Append(sp_unclaims, run)
       ELSE UNCHANGED <<unit, sp_unclaims>>
    /\ sp_claimed' = FALSE
    /\ sp_exit' = IF sp_path = "except" THEN Some(1) ELSE sp_exit
    /\ sp_pc' = "returned"
    /\ UNCHANGED <<sp_path, sp_proc, sp_deadline, agent, sp_claims, sp_stopped>>
    /\ UNCHANGED beatVars
    /\ SpawnFrame

(* ----------------------------- the workspace -------------------------- *)

\* The writer's time.sleep has lasted as long as it was asked to.
Slept == clock >= hw_wake

\* A second passes: nobody sleeps or waits longer than asked, and the
\* writer is sleeping or does not run.
Tick ==
    /\ clock < MaxClock
    /\ hw_pc \in {"none", "sleep", "retry", "exited", "killed"}
    /\ hw_pc \in {"sleep", "retry"} => ~Slept
    /\ sp_pc = "wait" => ~WaitTimedOut(clock, sp_deadline)
    /\ clock' = clock + 1
    /\ UNCHANGED <<hw_interval, writeVars, spawnVars>>
    /\ UNCHANGED <<lockVars, finVars, cliVars, healthVars, eventVars, beatVars,
                   checkVars, daemonVars>>

\* The unit as a health check finds it now: lsof, how the lsof pipeline
\* ends; other, a process other than the agent has the workspace as its
\* working directory.
Found(lsof, other) ==
    [status |-> unit.status, worktree |-> TRUE, file |-> heartbeat_file,
     proc |-> [bound |-> (agent = "running" \/ other), lsof |-> lsof]]

\* check_task(issue_id) on the unit of the workspace, at any moment: the
\* TaskHealth it returns.
CheckWorkspace ==
    /\ \E lsof \in {"ok", "timeout"}, other \in BOOLEAN :
         health' = Some(CheckTask(Found(lsof, other)))
    /\ UNCHANGED <<task, hb>>
    /\ UNCHANGED <<lockVars, finVars, cliVars, workVars, eventVars, beatVars,
                   checkVars, daemonVars>>

(* ----------------------- HealthChecker.check_all ---------------------- *)

\* What a step of check_all leaves alone.
CheckFrame ==
    UNCHANGED <<lockVars, finVars, cliVars, workVars, healthVars, eventVars, beatVars,
                daemonVars, auto_recover, tasks, ca_pass, ca_ids>>

\* The work units of a pass: without workspace, with a fresh record, with a
\* stale record and no process, with a record that is a JSON array, without
\* record but with a process, and one the tracker no longer has in progress.
Unbound == [bound |-> FALSE, lsof |-> "ok"]
UnitKinds ==
    {[status |-> "in_progress", worktree |-> FALSE, file |-> NoFile, proc |-> Unbound],
     [status |-> "in_progress", worktree |-> TRUE, file |-> WrittenRecord(Now), proc |-> Unbound],
     [status |-> "in_progress", worktree |-> TRUE, file |-> WrittenRecord(0), proc |-> Unbound],
     [status |-> "in_progress", worktree |-> TRUE,
      file |-> HeartbeatFile(TRUE, [text |-> "array", obj |-> [items |-> "x"]]), proc |-> Unbound],
     [status |-> "in_progress", worktree |-> TRUE, file |-> NoFile,
      proc |-> [bound |-> TRUE, lsof |-> "ok"]],
     [status |-> "open", worktree |-> FALSE, file |-> NoFile, proc |-> Unbound]}

\* The elements of the list json.loads gave _get_in_progress_tasks: a
\* dictionary describing a unit, or a value of another shape (a string).
TrackerEntries ==
    {[shape |-> "dict", unit |-> t] : t \in UnitKinds}
    \cup {[shape |-> "str", unit |-> NoTask]}

\* The lists _get_in_progress_tasks returns; the empty one also when bd
\* fails, times out, is missing or prints no JSON.
TaskLists == UNION {[1..n -> TrackerEntries] : n \in 0..MaxTasks}

\* _check_task(task): task.get raises AttributeError on a value that is no
\* dictionary.
CheckEntry(entry) ==
    IF entry.shape # "dict" THEN Raised("AttributeError") ELSE CheckTask(entry.unit)

\* The unit's entry in the tracker before the pass.
TrackerOf(entry) == [status |-> entry.unit.status, assignee |-> Some("a")]

\* The results dispatch returns for its plugins.
RECURSIVE DispatchResults(_)
DispatchResults(ps) ==
    IF ps = <<>> THEN <<>>
    ELSE IF Head(ps).blocking
         THEN LET result == ExecutePlugin(Head(ps))
              IN  IF Stops(result) THEN <<result>>
                  ELSE <<result>> \o DispatchResults(Tail(ps))
         ELSE <<AsyncStarted(Head(ps))>> \o DispatchResults(Tail(ps))

\* What running bd update in _recover_zombie does: it exits with 0 or with
\* another code, outlives the 10 s timeout, or bd is not installed.
RecoverRuns == {"exit0", "exit1", "timeout", "notfound"}

\* bd update <id> --status open, on the unit's entry in the tracker.
BdUpdateOpen(entry, run) ==
    IF run = "exit0" THEN [entry EXCEPT !.status = "open"] ELSE entry

\* _recover_zombie's return value.
RecoverZombie(run) == run = "exit0"

\* tasks = self._get_in_progress_tasks(); results = []
CheckAll ==
    /\ ca_pc = "idle"
    /\ ca_pc' = "check"
    /\ UNCHANGED <<tracker, ca_i, ca_results, trail>>
    /\ CheckFrame

\* if health.is_zombie
HandlesAll(h) == TRUE
Handles(h) == h.is_zombie

\* health = self._check_task(task); results.append(health): an exception
\* of _check_task leaves check_all.
CheckAllTask ==
    /\ ca_pc = "check"
    /\ ca_i <= Len(tasks)
    /\ LET checked == CheckEntry(tasks[ca_i])
       IN  IF checked.exc # "none"
           THEN /\ ca_pc' = "raised"
                /\ UNCHANGED <<ca_i, ca_results>>
           ELSE /\ ca_results' = Append(ca_results, checked.val[1])
                /\ IF Handles(checked.val[1])
                   THEN ca_pc' = "handle" /\ ca_i' = ca_i
                   ELSE ca_pc' = "check" /\ ca_i' = ca_i + 1
    /\ UNCHANGED <<tracker, trail>>
    /\ CheckFrame

\* _handle_zombie: the health.zombie event of the unit is dispatched.
HandleZombie ==
    /\ ca_pc = "handle"
    /\ trail' = Append(trail, [what |-> "health.zombie", unit |-> ca_i,
                               results |-> DispatchResults(GetPluginsForEvent(config, "health.zombie")),
                               pass |-> ca_pass, id |-> ca_ids[ca_i]])
    /\ IF auto_recover
       THEN ca_pc' = "recover" /\ ca_i' = ca_i
       ELSE ca_pc' = "check" /\ ca_i' = ca_i + 1
    /\ UNCHANGED <<tracker, ca_results>>
    /\ CheckFrame

\* _recover_zombie: bd update <id> --status open.
RecoverStep ==
    /\ ca_pc = "recover"
    /\ \E run \in RecoverRuns :
           /\ tracker' = [tracker EXCEPT ![ca_i] = BdUpdateOpen(tracker[ca_i], run)]
           /\ trail' = Append(trail, [what |-> "bd update", unit |-> ca_i,
                                      results |-> <<RecoverZombie(run)>>,
                                      pass |-> ca_pass, id |-> ca_ids[ca_i]])
    /\ ca_pc' = "check"
    /\ ca_i' = ca_i + 1
    /\ UNCHANGED ca_results
    /\ CheckFrame

\* return results
CheckAllReturn ==
    /\ ca_pc = "check"
    /\ ca_i > Len(tasks)
    /\ ca_pc' = "done"
    /\ UNCHANGED <<tracker, ca_i, ca_results, trail>>
    /\ CheckFrame

\* bd list --status in_progress: the positions of the last listing whose
\* unit the tracker still has in progress; an entry that is no dictionary
\* is printed again.
StillListed ==
    LET InProgress(i) == tasks[i].shape # "dict" \/ tracker[i].status = "in_progress"
    IN  SelectSeq([i \in 1..Len(tasks) |-> i], InProgress)

\* The scheduler's next call of check_all, after a pass that returned or
\* raised: tasks = self._get_in_progress_tasks(); results = [].
NextPass ==
    /\ ca_pc \in {"done", "raised"}
    /\ ca_pass < MaxPasses
    /\ tasks' = [j \in 1..Len(StillListed) |-> tasks[StillListed[j]]]
    /\ tracker' = [j \in 1..Len(StillListed) |-> tracker[StillListed[j]]]
    /\ ca_ids' = [j \in 1..Len(StillListed) |-> ca_ids[StillListed[j]]]
    /\ ca_pass' = ca_pass + 1
    /\ ca_pc' = "check"
    /\ ca_i' = 1
    /\ ca_results' = <<>>
    /\ UNCHANGED <<auto_recover, trail>>
    /\ UNCHANGED <<lockVars, finVars, cliVars, workVars, healthVars, eventVars, beatVars,
                   daemonVars>>

(* ------------------------------- Daemon ------------------------------- *)

\* What a step of a daemon leaves alone.
DaemonFrame == UNCHANGED <<lockVars, finVars, cliVars, workVars, healthVars, eventVars, beatVars, checkVars>>

\* The process with PID d exists: from the fork of instance d to its exit.
Alive(d) ==
    d_pc[d] \in {"write_pid", "setup", "loop", "call", "pass", "sleep", "backoff",
                 "stopped", "crashed"}

\* Daemon._is_running: the PID file holds a PID and os.kill(pid, 0) finds
\* the process.
IsRunning == pid_file # None /\ Alive(pid_file[1])

\* start(): if self._is_running(): return 1
DaemonStart(d) ==
    /\ d_pc[d] = "init"
    /\ IF IsRunning
       THEN /\ d_pc' = [d_pc EXCEPT ![d] = "refused"]
            /\ d_ret' = [d_ret EXCEPT ![d] = Some(1)]
       ELSE /\ d_pc' = [d_pc EXCEPT ![d] = "fork"]
            /\ d_ret' = d_ret
    /\ UNCHANGED <<pid_file, d_running, d_k, d_signalled, d_after>>
    /\ DaemonFrame

\* The double fork: the first parent returns 0 and the grandchild goes on,
\* or the first fork fails and start() returns 1.
DaemonFork(d) ==
    /\ d_pc[d] = "fork"
    /\ \E forked \in BOOLEAN :
           IF forked
           THEN /\ d_pc' = [d_pc EXCEPT ![d] = "write_pid"]
                /\ d_ret' = [d_ret EXCEPT ![d] = Some(0)]
           ELSE /\ d_pc' = [d_pc EXCEPT ![d] = "refused"]
                /\ d_ret' = [d_ret EXCEPT ![d] = Some(1)]
    /\ UNCHANGED <<pid_file, d_running, d_k, d_signalled, d_after>>
    /\ DaemonFrame

\* self._write_pid()
DaemonWritePid(d) ==
    /\ d_pc[d] = "write_pid"
    /\ pid_file' = Some(d)
    /\ d_pc' = [d_pc EXCEPT ![d] = "setup"]
    /\ UNCHANGED <<d_running, d_k, d_ret, d_signalled, d_after>>
    /\ DaemonFrame

\* The configuration is loaded and _run_loop sets up logging, sets _running
\* and installs the signal handlers; an exception on the way is a crash.
DaemonSetup(d) ==
    /\ d_pc[d] = "setup"
    /\ \E raised \in BOOLEAN :
           IF raised
           THEN /\ d_pc' = [d_pc EXCEPT ![d] = "crashed"]
                /\ d_running' = d_running
           ELSE /\ d_pc' = [d_pc EXCEPT ![d] = "loop"]
                /\ d_running' = [d_running EXCEPT ![d] = TRUE]
    /\ UNCHANGED <<pid_file, d_k, d_ret, d_signalled, d_after>>
    /\ DaemonFrame

\* signal_handler(signum, frame): SIGTERM or SIGINT arrives once the
\* handlers are installed and before the process has ended.
SignalHandlerKeeps(running) == running
SignalHandler(running) == FALSE

DaemonSignal(d) ==
    /\ d_pc[d] \in {"loop", "call", "pass", "sleep", "backoff", "stopped"}
    /\ d_running' = [d_running EXCEPT ![d] = SignalHandler(d_running[d])]
    /\ d_signalled' = [d_signalled EXCEPT ![d] = TRUE]
    /\ UNCHANGED <<pid_file, d_pc, d_k, d_ret, d_after>>
    /\ DaemonFrame

\* while self._running
DaemonLoop(d) ==
    /\ d_pc[d] = "loop"
    /\ d_pc' = [d_pc EXCEPT ![d] = IF d_running[d] THEN "call" ELSE "stopped"]
    /\ UNCHANGED <<pid_file, d_running, d_k, d_ret, d_signalled, d_after>>
    /\ DaemonFrame

\* checker.check_all() is called: a pass begins.
DaemonCall(d) ==
    /\ d_pc[d] = "call"
    /\ d_pc' = [d_pc EXCEPT ![d] = "pass"]
    /\ d_after' = [d_after EXCEPT ![d] = IF d_signalled[d] THEN @ + 1 ELSE @]
    /\ UNCHANGED <<pid_file, d_running, d_k, d_ret, d_signalled>>
    /\ DaemonFrame

\* The exceptions check_all raises, and except Exception.
PassRaises == {"AttributeError", "TypeError"}
CaughtNever(exc) == FALSE
Caught(exc) == exc \in PassRaises \cup {"Exception"}

\* checker.check_all() returns, or raises and the exception is logged.
DaemonPass(d) ==
    /\ d_pc[d] = "pass"
    /\ \/ /\ d_pc' = [d_pc EXCEPT ![d] = "sleep"]
          /\ d_k' = [d_k EXCEPT ![d] = 0]
       \/ /\ \E exc \in PassRaises :
                 d_pc' = [d_pc EXCEPT ![d] = IF Caught(exc) THEN "backoff" ELSE "crashed"]
          /\ d_k' = d_k
    /\ UNCHANGED <<pid_file, d_running, d_ret, d_signalled, d_after>>
    /\ DaemonFrame

\* if not self._running: break
InterruptedNever(running) == FALSE
Interrupted(running) == ~running

\* One turn of for _ in range(config.daemon.health_interval): the range is
\* used up, or the flag is down and the loop breaks, or time.sleep(1).
DaemonSleep(d) ==
    /\ d_pc[d] = "sleep"
    /\ IF d_k[d] = HealthInterval \/ Interrupted(d_running[d])
       THEN /\ d_pc' = [d_pc EXCEPT ![d] = "loop"]
            /\ d_k' = d_k
       ELSE /\ d_pc' = d_pc
            /\ d_k' = [d_k EXCEPT ![d] = @ + 1]
    /\ UNCHANGED <<pid_file, d_running, d_ret, d_signalled, d_after>>
    /\ DaemonFrame

\* time.sleep(5) after an exception.
DaemonBackoff(d) ==
    /\ d_pc[d] = "backoff"
    /\ d_pc' = [d_pc EXCEPT ![d] = "loop"]
    /\ UNCHANGED <<pid_file, d_running, d_k, d_ret, d_signalled, d_after>>
    /\ DaemonFrame

\* _run_loop has returned, or the crash was printed: finally the PID file is
\* unlinked, whatever PID it holds, and the process ends.
DaemonFinally(d) ==
    /\ d_pc[d] \in {"stopped", "crashed"}
    /\ pid_file' = None
    /\ d_pc' = [d_pc EXCEPT ![d] = "exited"]
    /\ UNCHANGED <<d_running, d_k, d_ret, d_signalled, d_after>>
    /\ DaemonFrame

(* --------------------------- specifications --------------------------- *)

\* The steps inside MergeLock methods, whoever called them.
LockStep(p) ==
    \/ AcquireAttempt(p)
    \/ AcquireStatus(p)
    \/ AcquireSleep(p)
    \/ ReleaseStatus(p)
    \/ ReleasePush(p)

\* The steps of FinishCommand.run.
FinishNext(p) ==
    \/ FinishStart(p)
    \/ FinishAcquired(p)
    \/ FinishCheckout(p)
    \/ FinishPull(p)
    \/ FinishMerge(p)
    \/ FinishPush(p)
    \/ FinishEmit(p)
    \/ FinishFinally(p)
    \/ FinishReleased(p)

\* Calls of the MergeLock methods from the top level, and the bodies of the
\* two methods FinishCommand.run does not call.
LockCall(p) ==
    \/ AcquireCall(p)
    \/ ReleaseCall(p)
    \/ ForceReleaseCall(p)
    \/ ForceRelease(p)
    \/ StatusCall(p)
    \/ Status(p)

Next == \E p \in Procs : LockCall(p) \/ LockStep(p)

\* Every process calls the lock's methods, in any order.
Spec == Init /\ [][Next]_vars

\* The same calls, against a remote whose reference may hold a foreign commit
\* at the start.
InitForeign == ref \in {NoRef} \cup ForeignRefs /\ InitLocal /\ InitOther

SpecForeign == InitForeign /\ [][Next]_vars

NextFinish == \E p \in Procs : LockStep(p) \/ FinishNext(p)

\* Concurrent finish runs only: nobody else touches the lock.
SpecFinish == Init /\ [][NextFinish]_vars

\* One health check of one work unit, for every unit, workspace, liveness
\* record and process state.
InitHealth ==
    /\ ref = NoRef /\ InitLocal
    /\ task \in Tasks
    /\ hb = None
    /\ health = None
    /\ dispatcher = [by |-> "cmd_events_emit", log_file |-> Some(EVENTS_LOG)]
    /\ config = <<>>
    /\ InitEvents
    /\ InitBeat
    /\ InitDaemon
    /\ InitWork
    /\ auto_recover = FALSE /\ tasks = <<>> /\ tracker = <<>> /\ InitCheck

NextHealth == HealthCheck

SpecHealth == InitHealth /\ [][NextHealth]_vars

\* One dispatch of one event, for every configuration and every dispatcher
\* the program builds.
InitDispatch ==
    /\ ref = NoRef /\ InitLocal
    /\ task = NoTask
    /\ hb = None
    /\ health = None
    /\ dispatcher \in Dispatchers
    /\ config \in Configs
    /\ InitEvents
    /\ InitBeat
    /\ InitDaemon
    /\ InitWork
    /\ auto_recover = FALSE /\ tasks = <<>> /\ tracker = <<>> /\ InitCheck

NextDispatch ==
    \/ Dispatch
    \/ DispatchBlocking
    \/ DispatchBlockingResult
    \/ DispatchAsync
    \/ DispatchReturn
    \/ \E n \in 1..MaxPlugins : ThreadRun(n) \/ ThreadResult(n)
    \/ HostReturn
    \/ HostExit

SpecDispatch == InitDispatch /\ [][NextDispatch]_vars

\* One heartbeat writer, over a workspace that may hold a record an earlier
\* writer left behind.
InitHeartbeat ==
    /\ ref = NoRef /\ InitLocal
    /\ task = NoTask
    /\ hb = None
    /\ health = None
    /\ dispatcher = [by |-> "cmd_events_emit", log_file |-> Some(EVENTS_LOG)]
    /\ config = <<>>
    /\ InitEvents
    /\ auto_recover = FALSE /\ tasks = <<>> /\ tracker = <<>> /\ InitCheck
    /\ InitDaemon
    /\ clock \in 0..MaxAge
    /\ hw_interval = MaxInterval
    /\ InitWrite
    /\ InitSpawn
    /\ hw_pc = "init"
    /\ hw_running = FALSE
    /\ heartbeat_file \in HeartbeatFiles
    /\ hw_signalled = FALSE
    /\ hw_unlinked = FALSE
    /\ hw_after = 0

\* The steps of start() itself.
WriterStep ==
    \/ WriterStart
    \/ WriterLoop
    \/ WriterOpen
    \/ WriterDump
    \/ WriterSleep
    \/ WriterUnlink
    \/ WriterExit

NextHeartbeat == WriterStep \/ WriterStop \/ WorktreeRemoved

\* The writer's process is scheduled: a step of start() that can be taken
\* is taken in the end.
\* One pass of check_all, for every list of units, either setting of
\* auto_recover and every configuration of at most one plugin.
InitCheckAll ==
    /\ ref = NoRef /\ InitLocal
    /\ task = NoTask
    /\ hb = None
    /\ health = None
    /\ dispatcher = [by |-> "_handle_zombie", log_file |-> None]
    /\ config \in {c \in Configs : Len(c) <= 1}
    /\ InitEvents
    /\ InitBeat
    /\ InitDaemon
    /\ InitWork
    /\ auto_recover \in BOOLEAN
    /\ tasks \in TaskLists
    /\ tracker = [i \in 1..Len(tasks) |-> TrackerOf(tasks[i])]
    /\ InitCheck

NextCheckAll ==
    \/ CheckAll
    \/ CheckAllTask
    \/ HandleZombie
    \/ RecoverStep
    \/ CheckAllReturn

SpecCheckAll == InitCheckAll /\ [][NextCheckAll]_vars

\* The passes of one scheduler over the same units.
NextPasses == NextCheckAll \/ NextPass

SpecPasses == InitCheckAll /\ [][NextPasses]_vars

\* The steps of instance d's start() and of its daemon.
DaemonStep(d) ==
    \/ DaemonStart(d)
    \/ DaemonFork(d)
    \/ DaemonWritePid(d)
    \/ DaemonSetup(d)
    \/ DaemonLoop(d)
    \/ DaemonCall(d)
    \/ DaemonPass(d)
    \/ DaemonSleep(d)
    \/ DaemonBackoff(d)
    \/ DaemonFinally(d)

NextDaemon == \E d \in Daemons : DaemonStep(d) \/ DaemonSignal(d)

\* Two invocations of start() on one PID file, each scheduled: a step of a
\* process that can be taken is taken in the end.
SpecDaemon ==
    /\ Init
    /\ [][NextDaemon]_vars
    /\ \A d \in Daemons : WF_vars(DaemonStep(d))

SpecHeartbeat == InitHeartbeat /\ [][NextHeartbeat]_vars /\ WF_vars(WriterStep)

\* Acquires from the top level and `tambour lock release` commands: a process
\* is an agent that acquires or an operator's shell that runs the command.
NextCommands ==
    \E p \in Procs :
        \/ cli[p] = NoCommand /\ AcquireCall(p)
        \/ AcquireAttempt(p)
        \/ AcquireStatus(p)
        \/ AcquireSleep(p)
        \/ op[p] # "acquire" /\ CmdLockRelease(p)
        \/ CmdLockReleaseRun(p)

SpecCommands == Init /\ [][NextCommands]_vars

\* One spawn on a fresh workspace, for every interval of its writer, with
\* the unit open or claimed by somebody else, and health checks at any time.
InitWorkspace ==
    /\ ref = NoRef /\ InitLocal
    /\ task = NoTask
    /\ hb = None
    /\ health = None
    /\ dispatcher = [by |-> "cmd_events_emit", log_file |-> Some(EVENTS_LOG)]
    /\ config = <<>>
    /\ InitEvents
    /\ auto_recover = FALSE /\ tasks = <<>> /\ tracker = <<>> /\ InitCheck
    /\ InitDaemon
    /\ hw_pc = "none"
    /\ hw_running = FALSE
    /\ heartbeat_file = NoFile
    /\ hw_signalled = FALSE
    /\ hw_unlinked = FALSE
    /\ hw_after = 0
    /\ clock = 0
    /\ hw_interval \in 1..MaxInterval
    /\ InitWrite
    /\ sp_pc = "init"
    /\ sp_path = "none"
    /\ sp_claimed = FALSE
    /\ sp_proc = FALSE
    /\ sp_exit = None
    /\ sp_deadline = 0
    /\ unit \in {Unclaimed, [status |-> "in_progress", assignee |-> Some("other")]}
    /\ agent = "none"
    /\ sp_claims = FALSE
    /\ sp_unclaims = <<>>
    /\ sp_stopped = FALSE

SpawnStep ==
    \/ SpawnStart
    \/ SpawnClaim
    \/ SpawnStartHeartbeat
    \/ SpawnRun
    \/ AgentExit
    \/ SpawnTerminate
    \/ SpawnWait
    \/ SpawnCleanup

\* The writer in the workspace: its sleeps last as long as asked.
TimedWriterStep ==
    \/ WriterStart
    \/ WriterLoop
    \/ WriterOpen
    \/ WriterDump
    \/ Slept /\ WriterSleep
    \/ WriterUnlink
    \/ WriterExit

NextWorkspace == SpawnStep \/ TimedWriterStep \/ Tick \/ CheckWorkspace

SpecWorkspace == InitWorkspace /\ [][NextWorkspace]_vars

\* The loop of acquire: every command it runs ends, so the loop goes on.
AcquireStep(p) == AcquireAttempt(p) \/ AcquireStatus(p) \/ AcquireSleep(p)

\* The calls of Spec, with every acquire under way taking its next step.
SpecWait == Init /\ [][Next]_vars /\ \A p \in Procs : WF_vars(AcquireStep(p))

\* The methods of one MergeLock instance per process, called from the top
\* level and from with blocks; acquire is called while the flag is false.
NextContext ==
    \E p \in Procs :
        \/ Enter(p)
        \/ Exit(p)
        \/ ~acq[p] /\ AcquireCall(p)
        \/ ReleaseCall(p)
        \/ ForceReleaseCall(p)
        \/ ForceRelease(p)
        \/ LockStep(p)

SpecContext == Init /\ [][NextContext]_vars

(* ------------------------ claims: the merge lock ----------------------- *)

\* The reference on the remote is the commit process p's acquire pushed.
HoldsRef(p) ==
    /\ ref.present
    /\ written # None
    /\ written[1].pid = PidOf(p)
    /\ ref = LockCommit(JsonDumps(ToDict(written[1])))

\* C1: among concurrent acquires against one remote, at most one returns
\* true while the reference is absent, and no other acquire returns true
\* until a release or force_release has deleted the reference: the acquires
\* that returned true since the last delete are at most one, and the
\* reference is then the commit that one pushed.
C1_AtMostOneAcquirer ==
    /\ Cardinality(owners) <= 1
    /\ \A p \in owners : HoldsRef(p)

\* C1's case: p's acquire has returned true and the create push of another
\* process has been rejected since.
C1_Witness ==
    \E p \in Procs, q \in Procs :
        /\ p # q
        /\ owners = {p}
        /\ op[p] = "acquire" /\ ret[p] = "true" /\ pc[p] = "idle"
        /\ pc[q] = "acq_status"

\* The main-branch commands of FinishCommand.run's guarded block.
Guarded == {"checkout", "pull", "merge", "push", "emit branch.merged"}

\* p's run is between the return of its acquire with true and the return of
\* its release.
InCritical(p) ==
    /\ fin[p].active
    /\ \/ pc[p] = "fin_acquired" /\ ret[p] = "true"
       \/ pc[p] \in {"fin_checkout", "fin_pull", "fin_merge", "fin_push",
                     "fin_emit", "fin_finally", "rel_status", "rel_push"}

\* C2, the order: a step of p's run that runs one of the guarded commands.
RunsGuarded(p) == \E c \in Guarded : c \in did'[p] /\ c \notin did[p]

\* C2: in FinishCommand.run with merge enabled, checkout, pull, merge, push
\* and the emission of branch.merged all run after acquire returned true and
\* before the lock is released (the reference is this run's own commit when
\* each of them runs, and the run has not called release yet), and no two
\* concurrent runs are between their own acquire and their own release at the
\* same time.
C2_FinishCriticalSection ==
    /\ [](\A p \in Procs, q \in Procs : InCritical(p) /\ InCritical(q) => p = q)
    /\ [](\A p \in Procs : InCritical(p) => HoldsRef(p) /\ acq[p])
    /\ [][\A p \in Procs : RunsGuarded(p) =>
            /\ InCritical(p) /\ InCritical(p)'
            /\ op[p] = "acquire" /\ ret[p] = "true"
            /\ HoldsRef(p) /\ HoldsRef(p)']_vars

\* C2's case: p's run is at the merge while another run waits for the lock.
C2_Witness ==
    \E p \in Procs, q \in Procs :
        /\ p # q
        /\ pc[p] = "fin_merge" /\ {"checkout", "pull"} \subseteq did[p]
        /\ fin[q].active /\ pc[q] = "acq_sleep" /\ tries[q] > 0

\* C3: release(holder), called while the reference exists and names a
\* different holder, returns false, performs no delete push, and leaves the
\* remote reference, the instance's is_acquired flag and its recorded holder
\* unchanged (the step is the status() call and ownership test of release).
C3_ReleaseRefusesNonHolder ==
    [][\A p \in Procs :
          /\ pc[p] = "rel_status" /\ pc'[p] # "rel_status"
          /\ ref.present /\ written # None
          /\ Some(written[1].holder) # arg[p]
          => /\ ret'[p] = "false"
             /\ pc'[p] # "rel_push"
             /\ rc'[p] = NoRc
             /\ ref' = ref
             /\ acq'[p] = acq[p]
             /\ hld'[p] = hld[p]]_vars

\* C4: every FinishCommand.run that acquired the lock has released it by the
\* time run returns or raises (success, pull, merge or push failure, an
\* exception in the guarded block): when the run ends, the commit it pushed
\* to the lock reference is no longer on the remote.
C4_FinishReleasesLock ==
    [][\A p \in Procs :
          pc[p] = "fin_released" /\ pc'[p] = "idle" => ~HoldsRef(p)']_vars

\* C5: if the reference stays present for the whole wait, acquire(holder)
\* returns false once the deadline has passed and never raises; it sleeps one
\* poll interval between attempts, starts no attempt after the deadline, and
\* leaves is_acquired false and the remote reference unchanged.
C5_AcquireTimesOut ==
    /\ [](\A p \in Procs : op[p] = "acquire" => ret[p] # "raised")
    /\ [](\A p \in Procs :
            pc[p] = "acq_loop" => elapsed[p] = tries[p] * POLL_INTERVAL)
    /\ [][\A p \in Procs :
            pc[p] = "acq_loop" /\ pc'[p] # "acq_loop" /\ ref.present =>
              /\ ref' = ref
              /\ ~acq'[p]
              /\ IF elapsed[p] < LockTimeout
                 THEN /\ pc'[p] \in {"acq_status", "acq_sleep"}
                      /\ tries'[p] = tries[p] + 1
                      /\ ret'[p] = "none"
                 ELSE /\ ret'[p] = "false"
                      /\ tries'[p] <= tries[p]]_vars

\* A step of p that is the body of force_release().
ForceStep(p) == pc[p] = "force_push" /\ pc'[p] = "idle"

\* C6 as the spec states it: force_release() returns true both when it
\* deletes an existing reference and when the reference is already absent,
\* checks no ownership, and afterwards the reference is absent and the
\* instance's is_acquired flag is false.
C6_ForceReleaseAlwaysTrue ==
    [][\A p \in Procs :
          ForceStep(p) => ret'[p] = "true" /\ ~ref'.present /\ ~acq'[p]]_vars

\* C6, amended: force_release() checks no ownership and always leaves
\* is_acquired false; it returns true, with the reference absent afterwards,
\* when its delete push deleted the reference (return code 0) or found it
\* absent (return code 1); when the push fails otherwise it returns false
\* and the reference is as it was.
C6_ForceRelease ==
    [][\A p \in Procs :
          ForceStep(p) =>
            /\ ~acq'[p] /\ hld'[p] = None
            /\ rc'[p] \in {0, 1, 128}
            /\ rc'[p] = 0 => ref.present /\ ~ref'.present /\ ret'[p] = "true"
            /\ rc'[p] = 1 => ~ref.present /\ ~ref'.present /\ ret'[p] = "true"
            /\ rc'[p] = 128 => ref' = ref /\ ret'[p] = "false"]_vars

\* C6's case: one force_release has deleted the reference another process's
\* acquire had created, and a force_release after it found the reference
\* absent; both returned true.
C6_Witness ==
    \E p \in Procs, q \in Procs :
        /\ p # q
        /\ op[p] = "force_release" /\ rc[p] = 0 /\ ret[p] = "true" /\ pc[p] = "idle"
        /\ op[q] = "force_release" /\ rc[q] = 1 /\ ret[q] = "true" /\ pc[q] = "idle"
        /\ ~ref.present /\ ~acq[p] /\ ~acq[q]

\* A step of p that is the delete push of release, the reference being absent.
ReleaseOfAbsent(p) == pc[p] = "rel_push" /\ pc'[p] # "rel_push" /\ ~ref.present

\* C7 as the spec states it: release is idempotent: release(holder) called
\* when the reference is already absent returns true and leaves it absent, so
\* two releases in a row by the holder both return true.
C7_ReleaseOfAbsentTrue ==
    [][\A p \in Procs :
          ReleaseOfAbsent(p) => ret'[p] = "true" /\ ~ref'.present]_vars

\* C7, amended: release called when the reference is already absent leaves
\* it absent; it returns true and clears is_acquired when its delete push
\* reports that the reference does not exist, and returns false, with
\* is_acquired as it was, when the push fails for any other reason.
C7_ReleaseIdempotent ==
    [][\A p \in Procs :
          ReleaseOfAbsent(p) =>
            /\ ~ref'.present
            /\ rc'[p] \in {1, 128}
            /\ rc'[p] = 1 => ret'[p] = "true" /\ ~acq'[p] /\ hld'[p] = None
            /\ rc'[p] = 128 =>
                 ret'[p] = "false" /\ acq'[p] = acq[p] /\ hld'[p] = hld[p]]_vars

\* C7's case: a release(holder) that found the reference absent has returned
\* true.
C7_Witness ==
    \E p \in Procs :
        /\ op[p] = "release" /\ arg[p] # None /\ pc[p] = "idle"
        /\ ret[p] = "true" /\ rc[p] = 1
        /\ ~ref.present

\* A step of p that is the body of a status() call from the top level.
StatusStep(p) == pc[p] = "status_run" /\ pc'[p] = "idle"

\* Serialize (to_dict, json.dumps), store, parse (json.loads, from_dict).
RoundTrip(m) == FromDict(JsonLoads(JsonDumps(ToDict(m))).val[1])

\* C8: LockMetadata survives serialize, store and parse unchanged
\* (from_dict(to_dict(m)) equals m), so after acquire(h) returned true and
\* before any release, status() returns held=true with exactly the metadata
\* that acquirer wrote.
C8_StatusShowsAcquirer ==
    /\ [](written # None => RoundTrip(written[1]) = Returned(written[1]))
    /\ [][\A p \in Procs :
            StatusStep(p) /\ owners # {} =>
              ret'[p] = "status" /\ st'[p] = Held(written[1])]_vars

\* C9: status() returns held=false exactly when the reference is absent on
\* the remote, and held=true whenever it is present, whatever the outcome of
\* the fetch command.
C9_StatusHeldIffPresent ==
    [][\A p \in Procs :
          StatusStep(p) =>
            ret'[p] = "status" /\ (st'[p].val[1].held <=> ref.present)]_vars

\* The blob is the JSON text of an object with the four fields of
\* LockMetadata and an ISO timestamp.
ValidMetadata(blob) ==
    /\ blob.text = "object"
    /\ {"holder", "acquired_at", "host", "pid"} \subseteq DOMAIN blob.obj
    /\ blob.obj.acquired_at.valid

\* The commit's tree has a lock.json with valid metadata.
ValidContent(r) ==
    \E i \in 1..Len(r.tree) :
        r.tree[i].name = LOCK_FILE /\ ValidMetadata(r.tree[i].blob)

\* C10: when the reference exists (the fetch succeeded) but its commit, tree
\* or blob cannot be read or its content is not valid metadata (invalid JSON,
\* a missing field, a malformed timestamp, a non-object payload), status()
\* returns held=true with no metadata and raises nothing.
C10_UnreadableMeansHeldUnknown ==
    [][\A p \in Procs :
          StatusStep(p) /\ rc'[p] = 0 =>
            /\ ret'[p] = "status"
            /\ st'[p].val[1].held
            /\ ~ValidContent(ref) => st'[p] = HeldUnknown]_vars

\* A step of p in which its acquire returns.
AcquireEnds(p) ==
    pc[p] = "acq_loop" /\ pc'[p] \notin {"acq_loop", "acq_status", "acq_sleep"}

\* C11: the lock gives no fairness among waiters: the process whose create
\* push first lands on the absent reference wins, whoever called acquire
\* first; the earlier callers stay waiting, and each gives up by its own
\* deadline alone, so an earlier waiter can lose to a later one and time out
\* although the lock was free at a moment of its wait.
C11_NoFairness ==
    /\ [](\A p \in Procs : elapsed[p] < LockTimeout + POLL_INTERVAL)
    /\ [][\A p \in Procs :
            AcquireEnds(p) =>
              /\ ret'[p] = "true" =>
                   /\ ~ref.present /\ HoldsRef(p)'
                   /\ \A x \in AheadOf(p) : overtaken'[x] /\ pc'[x] = pc[x]
              /\ ret'[p] = "false" => elapsed[p] >= LockTimeout]_vars

\* C11's case: p's acquire has timed out although, while it waited, the
\* reference was free and the acquire of q, who called later, returned true.
C11_Witness ==
    \E p \in Procs :
        /\ op[p] = "acquire" /\ ret[p] = "false" /\ pc[p] = "idle"
        /\ overtaken[p]
        /\ ~acq[p]
        /\ \E q \in Procs : q # p /\ owners = {q}

(* ----------------------- claims: the health check ---------------------- *)

\* The health check has returned a TaskHealth.
Checked == health # None /\ health[1].exc = "none"

\* The liveness the check found: _check_heartbeat was called and said alive.
FoundAlive == hb # None /\ hb[1].exc = "none" /\ hb[1].val[1].is_alive

\* C12: for every work unit the health check sets is_zombie true if and only
\* if the tracked status is in_progress and (its workspace does not exist or
\* it is not alive): a unit with any other status is never a zombie, and an
\* in-progress unit whose workspace is missing is a zombie regardless of any
\* liveness record.
C12_ZombieIff ==
    /\ Checked =>
         /\ health[1].val[1].is_zombie <=>
              (task.status = "in_progress" /\ (~task.worktree \/ ~FoundAlive))
         /\ task.status # "in_progress" => ~health[1].val[1].is_zombie
    /\ (health # None /\ ~task.worktree) =>
         /\ Checked /\ hb = None
         /\ task.status = "in_progress" => health[1].val[1].is_zombie

\* C12's case: an in-progress unit whose workspace is missing has been found
\* a zombie although a fresh liveness record and a bound process exist.
C12_Witness ==
    /\ Checked /\ health[1].val[1].is_zombie
    /\ task.status = "in_progress" /\ ~task.worktree
    /\ task.file \in {HeartbeatFile(TRUE, JsonDumps([timestamp |-> Stamp(Now, None, TRUE), pid |-> 1]))}
    /\ task.proc.bound /\ task.proc.lsof = "ok"

\* The liveness record is there and readable: a JSON object whose timestamp
\* is an ISO timestamp with a timezone.
ReadableRecord(file) ==
    /\ file.exists /\ file.readable
    /\ file.json.text = "object"
    /\ "timestamp" \in DOMAIN file.json.obj
    /\ file.json.obj.timestamp.valid
    /\ file.json.obj.timestamp.z \/ file.json.obj.timestamp.tz # None

\* The age of a readable record, in seconds.
RecordAge(file) == Now - file.json.obj.timestamp.sec

\* C13, the part on records, the same in the spec's statement and in the
\* amended one: a readable record younger than the threshold gives alive, one
\* at or above the threshold gives not alive, whatever the processes are.
RecordDecides ==
    (health # None /\ task.worktree /\ ReadableRecord(task.file)) =>
        /\ Checked
        /\ FoundAlive <=> RecordAge(task.file) < ZombieThreshold
        /\ hb[1].val[1].last_activity # None
        /\ task.status = "in_progress" => (health[1].val[1].is_zombie <=> ~FoundAlive)

\* C13 as the spec states it: for an existing workspace, a readable record
\* with age below the threshold gives alive, one with age at or above it
\* gives not alive, and an absent record gives alive exactly when some live
\* process has the workspace as its working directory.
C13_LivenessAsStated ==
    /\ RecordDecides
    /\ (health # None /\ task.worktree /\ ~task.file.exists) =>
         Checked /\ (FoundAlive <=> task.proc.bound)

\* C13, amended: as above, but an absent record gives alive exactly when the
\* lsof check finds a process with the workspace as its working directory
\* within its timeout; a check that times out gives not alive even if such a
\* process exists.
C13_Liveness ==
    /\ RecordDecides
    /\ (health # None /\ task.worktree /\ ~task.file.exists) =>
         /\ Checked
         /\ FoundAlive <=> (task.proc.bound /\ task.proc.lsof = "ok")
         /\ hb[1].val[1].last_activity = None

\* C13's case: an in-progress unit with a workspace, a record older than the
\* threshold and no process bound to the workspace has been found a zombie.
C13_Witness ==
    /\ Checked /\ health[1].val[1].is_zombie
    /\ task.status = "in_progress" /\ task.worktree
    /\ ReadableRecord(task.file) /\ RecordAge(task.file) > ZombieThreshold
    /\ ~task.proc.bound

\* C14: when the liveness record exists but cannot be read or parsed
\* (truncated or empty file, not JSON, JSON that is not an object, no
\* timestamp field, a malformed or timezone-less timestamp), the health check
\* raises nothing and decides liveness by the process cross-reference.
C14_UnreadableFallsBack ==
    (health # None /\ task.worktree /\ task.file.exists /\ ~ReadableRecord(task.file)) =>
        /\ Checked
        /\ hb = Some(Returned([is_alive |-> task.proc.bound /\ task.proc.lsof = "ok",
                               last_activity |-> None]))

(* ------------------------ claims: event dispatch ----------------------- *)

\* The command of the plugin named n has been started.
Ran(n) == \E i \in 1..Len(started) : started[i] = n

\* The command of the plugin named n has ended.
Ended(n) == \E i \in 1..Len(finished) : finished[i] = n

\* The plugin at position k of the call's subscriptions is blocking and its
\* command has ended without success.
FailedBlocking(k) ==
    /\ plugins[k].blocking
    /\ Ended(plugins[k].name)
    /\ plugins[k].run # "exit0"

\* C15: within one dispatch call, once a blocking subscription's result is
\* unsuccessful, no later subscription, blocking or not, is started, and the
\* returned list ends with that failed result.
C15_FailFast ==
    \A k \in 1..Len(plugins) : FailedBlocking(k) =>
        /\ dpc = "returned"
        /\ Len(results) = k
        /\ results[k].plugin_name = plugins[k].name
        /\ ~results[k].success
        /\ \A j \in (k + 1)..Len(plugins) :
               ~Ran(plugins[j].name) /\ thread[plugins[j].name] = "none"

\* C15's case: two blocking subscriptions, the first failed: dispatch has
\* returned one result and the second command was never started.
C15_Witness ==
    /\ dpc = "returned"
    /\ Len(plugins) = 2
    /\ plugins[1].blocking /\ plugins[2].blocking
    /\ FailedBlocking(1)
    /\ Len(results) = 1
    /\ ~Ran(plugins[2].name)
    /\ host = "exited"

\* The blocking commands started and not yet ended.
BlockingInProgress ==
    {k \in 1..Len(plugins) :
        plugins[k].blocking /\ Ran(plugins[k].name) /\ ~Ended(plugins[k].name)}

\* The names of the blocking subscriptions started, in the order of starting.
BlockingStarted ==
    LET IsBlocking(n) == config[n].blocking
    IN  SelectSeq(started, IsBlocking)

\* C16: blocking subscriptions run one at a time and in configuration order:
\* a blocking command is started only after every earlier blocking
\* subscription of the call has ended with success.
C16_BlockingSerial ==
    /\ Cardinality(BlockingInProgress) <= 1
    /\ \A i, j \in 1..Len(BlockingStarted) :
           i < j => BlockingStarted[i] < BlockingStarted[j]
    /\ \A k \in 1..Len(plugins) :
           (plugins[k].blocking /\ Ran(plugins[k].name)) =>
               \A j \in 1..(k - 1) :
                   plugins[j].blocking =>
                       Ended(plugins[j].name) /\ plugins[j].run = "exit0"

\* C16's case: the second of two blocking commands is in progress, after the
\* first has ended with success.
C16_Witness ==
    /\ Len(plugins) = 2
    /\ plugins[1].blocking /\ plugins[2].blocking
    /\ dpc = "exec" /\ idx = 2
    /\ started = <<plugins[1].name, plugins[2].name>>
    /\ finished = <<plugins[1].name>>

\* How many subscriptions the for loop of dispatch has processed.
Processed ==
    CASE dpc = "idle" -> 0
      [] dpc \in {"loop", "exec"} -> idx - 1
      [] dpc = "returned" ->
            IF idx <= Len(plugins) THEN idx ELSE Len(plugins)

\* The marker result of a non-blocking subscription.
IsMarker(result) ==
    /\ result.success
    /\ result.output = Some("(Async execution started)")
    /\ result.exit_code = None /\ result.error = None

\* C17: for every non-blocking subscription dispatch reaches, the list holds
\* a result with success true and the marker output from the moment its
\* thread is made, whatever the command really does; the list has one entry
\* per subscription processed, in configuration order.
C17_Placeholders ==
    /\ Len(results) = Processed
    /\ \A k \in 1..Len(results) : results[k].plugin_name = plugins[k].name
    /\ \A k \in 1..Len(plugins) :
           ~plugins[k].blocking =>
               /\ thread[plugins[k].name] # "none" <=> k <= Len(results)
               /\ k <= Len(results) => IsMarker(results[k])

\* C17's case: a successful blocking subscription and a non-blocking one
\* whose command has failed: dispatch returned two results, both successes.
C17_Witness ==
    /\ dpc = "returned"
    /\ Len(plugins) = 2
    /\ plugins[1].blocking /\ plugins[1].run = "exit0"
    /\ ~plugins[2].blocking /\ plugins[2].run = "exit1"
    /\ Ended(plugins[2].name)
    /\ Len(results) = 2
    /\ results[1].success /\ results[2].success

\* The lines of the log that name plugin n.
LinesOf(n) == {i \in 1..Len(log) : log[i].plugin_name = n}

\* C18: every subscription command a dispatch call has run, blocking or not
\* and whichever dispatcher the program built, has its real outcome in the
\* dispatch log exactly once.
C18_EveryOutcomeLogged ==
    \A n \in 1..Len(config) :
        Ended(n) =>
            /\ Cardinality(LinesOf(n)) = 1
            /\ \A i \in LinesOf(n) : log[i] = LogLine(ExecutePlugin(config[n]))

\* The threads whose command is in progress.
Running == {n \in DOMAIN thread : thread[n] = "running"}

\* C19: dispatch does not wait for a non-blocking command: its loop and its
\* return are never held up by a thread, the step that makes a thread neither
\* starts nor ends a command, and every non-blocking subscription reached
\* has a thread of its own.
C19_NoWaiting ==
    /\ [](dpc = "loop" => ENABLED (DispatchBlocking \/ DispatchAsync \/ DispatchReturn))
    /\ [][DispatchAsync => UNCHANGED <<started, finished>>]_vars
    /\ [](\A n \in Running : ~config[n].blocking /\ Ran(n) /\ ~Ended(n))

\* C19's case: two non-blocking commands of one event are both in progress
\* after dispatch has returned.
C19_Witness ==
    /\ dpc = "returned"
    /\ Cardinality(Running) = 2

\* C20: nothing joins the non-blocking tasks: the exit of the host process
\* after dispatch has returned does not wait for them, so that it may cut
\* one off in the middle of its command.
C20_ExitDoesNotWait ==
    host = "shutdown" => ENABLED HostExit

\* The plugin named n is enabled and subscribed to the type of the event.
Subscribed(n) == config[n].enabled /\ event[1] \in config[n].on

\* C21: dispatch selects exactly the subscriptions that are enabled and whose
\* trigger set contains the type of the event, in the order of the
\* configuration; a disabled subscription or one of another event type never
\* has its command run and never appears in the results.
C21_Selection ==
    dpc # "idle" =>
        /\ {plugins[k].name : k \in 1..Len(plugins)} = {n \in 1..Len(config) : Subscribed(n)}
        /\ \A i, j \in 1..Len(plugins) : i < j => plugins[i].name < plugins[j].name
        /\ \A k \in 1..Len(plugins) : plugins[k] = config[plugins[k].name]
        /\ \A n \in 1..Len(config) :
               ~Subscribed(n) =>
                   /\ ~Ran(n)
                   /\ thread[n] = "none"
                   /\ \A k \in 1..Len(results) : results[k].plugin_name # n

\* C21's case: an agent.spawned event, a first plugin subscribed to
\* health.zombie only and a second subscribed to it: dispatch has returned
\* after running the second alone.
C21_Witness ==
    /\ dpc = "returned"
    /\ event = Some("agent.spawned")
    /\ Len(config) = 2
    /\ config[1].enabled /\ config[1].on = {"health.zombie"}
    /\ started = <<2>>
    /\ Len(results) = 1 /\ results[1].plugin_name = 2

\* What the claim says of the result of a command that does as `run` says.
AsClaimed(result, run) ==
    CASE run = "exit0" -> result.success /\ result.exit_code = Some(0)
      [] run = "exit1" -> ~result.success /\ result.exit_code = Some(1)
      [] run = "timeout" ->
            ~result.success /\ result.exit_code = None
            /\ result.error = Some("Plugin timed out")
      [] run = "error" ->
            ~result.success /\ result.exit_code = None
            /\ result.error = Some("str(e)")

\* C22: the execution of a plugin raises nothing into dispatch: a non-zero
\* exit gives a failed result with that exit code, a timeout a failed result
\* with the timeout message and no exit code, a spawn failure a failed result
\* with the error text; dispatch has returned after each of them, and the
\* log lines of the commands say the same.
C22_FailuresCaptured ==
    /\ \A k \in 1..Len(results) :
           plugins[k].blocking =>
               /\ AsClaimed(results[k], plugins[k].run)
               /\ plugins[k].run # "exit0" => dpc = "returned"
    /\ \A i \in 1..Len(log) :
           /\ log[i].status = "FAILED" <=> config[log[i].plugin_name].run # "exit0"
           /\ log[i].exit_code # None <=> config[log[i].plugin_name].run \in {"exit0", "exit1"}

\* C22's case: a blocking command timed out: dispatch returned its failed
\* result and the process has ended.
C22_Witness ==
    /\ host = "exited"
    /\ Len(results) = 1
    /\ plugins[1].blocking /\ plugins[1].run = "timeout"
    /\ ~results[1].success

(* ---------------------- claims: the heartbeat writer -------------------- *)

\* C23: after the heartbeat writer has received SIGTERM or SIGINT it leaves
\* its loop (after one more write at most), deletes the liveness record,
\* tolerating a record already absent, and exits; once the record has been
\* deleted it is not written again.
C23_StopDeletesRecord ==
    /\ [](hw_after <= 1)
    /\ [](hw_pc = "exited" => hw_signalled /\ hw_unlinked /\ heartbeat_file = NoFile)
    /\ [][hw_unlinked => heartbeat_file' = NoFile]_vars
    /\ (hw_signalled ~> hw_pc = "exited")

\* C23's case: the signal arrived after the loop's test, the writer wrote
\* once more, then deleted the record and exited.
C23_Witness ==
    /\ hw_pc = "exited"
    /\ hw_signalled
    /\ hw_after = 1
    /\ heartbeat_file = NoFile

(* -------------------------- claims: check_all ------------------------- *)

\* The places of the trail where a health.zombie event of unit i was
\* dispatched, and those where a tracker update of unit i was run.
EventsFor(i) == {k \in 1..Len(trail) : trail[k].what = "health.zombie" /\ trail[k].unit = i}
UpdatesFor(i) == {k \in 1..Len(trail) : trail[k].what = "bd update" /\ trail[k].unit = i}

\* check_all has finished with unit i.
Handled(i) == i < ca_i

\* C24: in check_all every work unit classified as a zombie has exactly one
\* health.zombie event dispatched for it, before any recovery of the unit is
\* attempted; a unit not classified as a zombie has no event and no tracker
\* update.
C24_OneEventPerZombie ==
    \A i \in 1..Len(ca_results) :
        IF ca_results[i].is_zombie
        THEN /\ Cardinality(EventsFor(i)) <= 1
             /\ Handled(i) => Cardinality(EventsFor(i)) = 1
             /\ \A u \in UpdatesFor(i) : \E e \in EventsFor(i) : e < u
        ELSE /\ EventsFor(i) = {}
             /\ UpdatesFor(i) = {}
             /\ tracker[i] = TrackerOf(tasks[i])

\* C24's case: a pass over a zombie and a healthy unit with auto-recovery has
\* returned: one event and then one update for the first, nothing for the
\* second.
C24_Witness ==
    /\ ca_pc = "done"
    /\ auto_recover
    /\ Len(ca_results) = 2
    /\ ca_results[1].is_zombie /\ ~ca_results[2].is_zombie
    /\ Len(trail) = 2
    /\ trail[1].what = "health.zombie" /\ trail[2].what = "bd update"

\* The tracker update of unit i has been run and bd reported success.
Recovered(i) == \E u \in UpdatesFor(i) : trail[u].results = <<TRUE>>

\* C25: with auto-recovery configured, the recovery of a unit classified as
\* a zombie leaves the unit open and without assignee in the tracker (when
\* the update succeeds); without auto-recovery check_all updates nothing in
\* the tracker.
C25_RecoveryResetsUnit ==
    /\ \A i \in 1..Len(ca_results) :
           (auto_recover /\ ca_results[i].is_zombie /\ Recovered(i)) =>
               tracker[i] = [status |-> "open", assignee |-> None]
    /\ ~auto_recover =>
           /\ \A i \in 1..Len(tasks) : UpdatesFor(i) = {} /\ tracker[i] = TrackerOf(tasks[i])

\* C26: in check_all a failure while one work unit is checked or handled
\* (an unparsable liveness record, a failing zombie plugin, a failed or
\* timed-out recovery, a tracker entry of unexpected shape) is not raised to
\* the caller, and the pass goes on to check the units that remain.
C26_PassSurvives ==
    /\ ca_pc # "raised"
    /\ ca_pc = "done" => Len(ca_results) = Len(tasks)

(* -------------------------- claims: the daemon ------------------------- *)

\* The scheduler loop of instance d is running.
Looping(d) == d_pc[d] \in {"loop", "call", "pass", "sleep", "backoff"}

\* C27: for one PID file at most one scheduler loop runs at a time, also
\* when two starts run concurrently (the start that finds an instance
\* running returns failure and starts no loop), and while a loop runs the
\* PID file names the process of that loop.
C27_SingleInstance ==
    /\ Cardinality({d \in Daemons : Looping(d)}) <= 1
    /\ \A d \in Daemons : Looping(d) => pid_file = Some(d)

\* C28: an exception raised by a health-check pass never ends the scheduler
\* loop: the pass is followed by the backoff, never by the end of the loop,
\* the loop ends only after a shutdown signal, and after the backoff another
\* pass begins unless a signal has been received.
C28_PassExceptionSurvived ==
    /\ [][\A d \in Daemons :
              d_pc[d] = "pass" => d_pc'[d] \in {"pass", "sleep", "backoff"}]_vars
    /\ [](\A d \in Daemons : d_pc[d] = "stopped" => d_signalled[d])
    /\ \A d \in Daemons :
           (d_pc[d] = "backoff") ~> (d_pc[d] = "pass" \/ d_signalled[d])

\* C28's case: a pass of instance 1 raised and, no signal received, the loop
\* is in its backoff, the PID file still naming it.
C28_Witness ==
    /\ d_pc[1] = "backoff"
    /\ ~d_signalled[1]
    /\ d_running[1]
    /\ pid_file = Some(1)

\* C29: after the scheduler has received SIGTERM or SIGINT it leaves its
\* loop and removes the PID file in the end; between passes it sleeps one
\* second at a time and looks at the running flag before each, sleeping no
\* more once the flag is down; at most one pass begins after the signal.
C29_SignalStopsLoop ==
    /\ [](\A d \in Daemons : d_after[d] <= 1)
    /\ [][\A d \in Daemons :
              /\ d_k'[d] \in {d_k[d], d_k[d] + 1, 0}
              /\ (d_pc[d] = "sleep" /\ ~d_running[d]) => d_k'[d] = d_k[d]]_vars
    /\ [][\A d \in Daemons :
              (d_pc[d] = "stopped" /\ d_pc'[d] = "exited") => pid_file' = None]_vars
    /\ \A d \in Daemons : d_signalled[d] ~> (d_pc[d] = "exited")

\* C29's case: the signal reached instance 1 after the loop's test: one more
\* pass began, then the loop ended and the PID file was removed.
C29_Witness ==
    /\ d_pc[1] = "exited"
    /\ d_signalled[1]
    /\ d_after[1] = 1
    /\ pid_file = None

(* ---------------------- claims: finish and the lock -------------------- *)

\* C30: when acquire times out, FinishCommand.run returns a failed result
\* whose error names the commands to inspect and to force-release the lock,
\* and runs no checkout, pull, merge, push, worktree removal, branch
\* deletion, issue close or event emission; the lock is left as it was.
C30_TimeoutStopsFinish ==
    /\ [](\A p \in Procs :
             (pc[p] = "idle" /\ fres[p] = "lock_timeout") =>
                 /\ did[p] = {}
                 /\ ~acq[p]
                 /\ ErrorHints(fres[p]) = {"tambour lock-status", "tambour lock-release"})
    /\ [][\A p \in Procs :
              (pc[p] = "fin_acquired" /\ ret[p] = "false" /\ pc'[p] # "fin_acquired") =>
                  /\ fres'[p] = "lock_timeout"
                  /\ pc'[p] = "idle"
                  /\ did'[p] = {}
                  /\ ref' = ref]_vars

\* C30's case: a finish run has ended with the lock timeout while the other
\* run still holds the lock.
C30_Witness ==
    \E p \in Procs :
        /\ pc[p] = "idle" /\ fres[p] = "lock_timeout"
        /\ did[p] = {}
        /\ ref.present
        /\ \E q \in Procs \ {p} : acq[q] /\ fin[q].active

(* ------------------- claims: the reference on the remote --------------- *)

\* C33: the lock reference changes only by being created while absent and by
\* being deleted: a step that changes it goes from absent to present or from
\* present to absent, so the content of an existing reference never changes.
C33_CreateOrDeleteOnly ==
    [][ref' # ref => \/ ~ref.present /\ ref'.present
                     \/ ref.present /\ ~ref'.present]_vars

\* C33's case: the reference is the commit q pushed, and the create push of
\* p, whose commit differs from it, has just been rejected.
C33_Witness ==
    \E p \in Procs, q \in Procs :
        /\ p # q
        /\ HoldsRef(q)
        /\ pc[p] = "acq_status" /\ tries[p] = 1
        /\ meta[p] # None
        /\ LockCommit(LockData(p)) # ref

\* C34: the delete push of release(holder) never deletes a reference that
\* names a different holder at the moment of the push, whatever other
\* processes did between the status read of release and that push.
C34_ReleaseDeletesOwnOnly ==
    [][\A p \in Procs :
          /\ pc[p] = "rel_push" /\ pc'[p] # "rel_push"
          /\ arg[p] # None
          /\ ref.present /\ ~ref'.present
          => written # None /\ Some(written[1].holder) = arg[p]]_vars

(* ------------------------ claims: waiting in acquire ------------------- *)

\* p is inside acquire.
Acquiring(p) == pc[p] \in {"acq_loop", "acq_status", "acq_sleep"}

\* A step of p that is a turn of acquire's loop begun before the deadline
\* while the reference is absent.
AttemptOnAbsent(p) ==
    /\ pc[p] = "acq_loop" /\ pc'[p] # "acq_loop"
    /\ elapsed[p] < LockTimeout
    /\ ~ref.present

\* C40 as the spec states it: a waiting acquire always ends, and an attempt
\* that starts before the deadline while the reference is absent makes the
\* acquire return true.
C40_WaiterSucceeds ==
    /\ \A p \in Procs : Acquiring(p) ~> ~Acquiring(p)
    /\ [][\A p \in Procs : AttemptOnAbsent(p) => ret'[p] = "true"]_vars

\* C40, amended: a waiting acquire always ends; an attempt that starts before
\* the deadline while the reference is absent either makes the acquire
\* return true, with the reference being the waiter's commit and its flag
\* set, or fails in one of its git commands, and then the reference stays
\* absent and the waiter goes on waiting: it never returns false there.
C40_WaiterSucceedsOrRetries ==
    /\ \A p \in Procs : Acquiring(p) ~> ~Acquiring(p)
    /\ [][\A p \in Procs : AttemptOnAbsent(p) =>
            \/ /\ ret'[p] = "true" /\ pc'[p] = "idle"
               /\ acq'[p] /\ ref' = LockCommit(LockData(p))
            \/ /\ pc'[p] \in {"acq_status", "acq_sleep"}
               /\ ~ref'.present /\ ~acq'[p]]_vars

\* C40's case: p has waited (a push of its acquire was rejected), q's release
\* has deleted the reference since, and p's next attempt starts before its
\* deadline.
C40_Witness ==
    \E p \in Procs, q \in Procs :
        /\ p # q
        /\ pc[p] = "acq_loop" /\ tries[p] > 0 /\ elapsed[p] < LockTimeout
        /\ ~ref.present
        /\ op[q] = "release" /\ ret[q] = "true" /\ rc[q] = 0 /\ pc[q] = "idle"

(* ---------------------- claims: the is_acquired flag ------------------- *)

C31_ReleaseVerifiesHolder ==
    [][\A p \in Procs :
          pc[p] = "cli_force" /\ pc'[p] = "idle" =>
            /\ (/\ cli[p].holder # None
                /\ ref.present /\ written # None
                /\ Some(written[1].holder) # cli[p].holder)
               => cli'[p].exit = Some(1) /\ ref' = ref
            /\ cli[p].holder = None => cli'[p].exit = Some(0)]_vars


(* ---------------------- claims: the workspace ------------------------- *)

\* C37: once AgentSpawner has stopped the heartbeat writer it started
\* (terminate, wait up to 5 seconds, kill), the liveness record is absent
\* from the workspace, whatever the writer's interval.
C37_StoppedWriterLeavesNoRecord ==
    sp_stopped => ~heartbeat_file.exists


\* The health check has just returned a TaskHealth that classifies the unit
\* of the workspace as a zombie.
ClassifiedZombie ==
    /\ health' # health
    /\ health'[1].exc = "none"
    /\ health'[1].val[1].is_zombie

\* C36: from the moment spawn has claimed the unit until its agent command
\* exits, no health check classifies the unit as a zombie; this includes
\* the time before the heartbeat writer's first write.
C36_ClaimedUnitNeverZombie ==
    [][sp_claimed /\ sp_pc \in {"start_hb", "run", "agent"}
           => ~ClassifiedZombie]_vars

\* C35: while one heartbeat writer runs with an interval below the zombie
\* threshold and every write succeeding, no health check classifies the
\* in-progress unit as a zombie once a record has been written, whenever
\* the check reads the record, between truncation and write included.
C35_WriterKeepsUnitAlive ==
    [][(/\ hw_pc \in {"loop", "write", "dump", "sleep"}
        /\ ~hw_signalled /\ ~hw_failed /\ hw_written
        /\ hw_interval < ZombieThreshold
        /\ unit.status = "in_progress")
       => ~ClassifiedZombie]_vars


\* The agent command of this spawn failed: it could not be started, or it
\* exited with a code other than 0.
AgentFailed ==
    \/ sp_path = "except"
    \/ sp_path = "finally" /\ sp_exit # Some(0)

\* The heartbeat writer's process does not exist (any more).
WriterGone == hw_pc \in {"none", "exited", "killed"}

\* C32: spawn requests the unclaim of the unit exactly when its agent
\* command failed (could not be started, or exited non-zero) and this spawn
\* claimed the unit, and the request that succeeds leaves the unit open with
\* no assignee; after an agent that exited 0, and without a claim of its
\* own, it requests none; and when spawn returns, the heartbeat writer it
\* started has been stopped.
C32_UnclaimOnFailureOnly ==
    /\ sp_pc = "returned" /\ AgentFailed /\ sp_claims => Len(sp_unclaims) = 1
    /\ sp_unclaims # <<>> => sp_pc = "returned" /\ AgentFailed /\ sp_claims
    /\ sp_unclaims = <<TRUE>> => unit = Unclaimed
    /\ sp_pc = "returned" => WriterGone /\ ~sp_proc

\* A spawn that claimed the unit and whose agent exited non-zero has
\* stopped its writer, unclaimed the unit and returned the agent's code.
C32_Witness ==
    /\ sp_pc = "returned" /\ sp_claims /\ sp_stopped
    /\ sp_path = "finally" /\ sp_exit = Some(1)
    /\ sp_unclaims = <<TRUE>> /\ unit = Unclaimed


(* ----------------------- claims: repeated passes ---------------------- *)

\* The entry is one _check_task classifies as a zombie.
ZombieEntry(entry) ==
    /\ entry.shape = "dict"
    /\ CheckTask(entry.unit).exc = "none"
    /\ CheckTask(entry.unit).val[1].is_zombie

\* The passes in which a health.zombie event was dispatched for unit id.
ReportedIn(id) ==
    {trail[k].pass : k \in {n \in 1..Len(trail) :
                                trail[n].what = "health.zombie" /\ trail[n].id = id}}

\* The passes in which the tracker update of unit id succeeded.
RecoveredIn(id) ==
    {trail[k].pass : k \in {n \in 1..Len(trail) :
                                /\ trail[n].what = "bd update" /\ trail[n].id = id
                                /\ trail[n].results = <<TRUE>>}}

\* C38: zombie findings are not de-duplicated across passes.  Without
\* auto-recovery every pass that has ended has dispatched a health.zombie
\* event for each listed unit that is a zombie; with auto-recovery a unit
\* is reported in no pass after the one whose tracker update succeeded, so
\* in one pass at most when the first update succeeds.
C38_ReportedEveryPass ==
    /\ ~auto_recover /\ ca_pc \in {"done", "raised"} =>
           \A i \in 1..Len(tasks) :
               ZombieEntry(tasks[i]) => ca_pass \in ReportedIn(ca_ids[i])
    /\ auto_recover =>
           \A id \in 1..MaxTasks : \A r \in RecoveredIn(id) :
               /\ \A k \in ReportedIn(id) : k <= r
               /\ ReportedIn(id) \cap RecoveredIn(id) = {r}

====
